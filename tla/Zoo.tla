-------------------------------- MODULE Zoo --------------------------------
(***************************************************************************)
(* The functions of the dbus plugin that a widget calls (plugins/dbus/zoo/ *)
(* zoo.c, zoo_call_params.c, zoo_uncvt_val.c): values are made of values,  *)
(* and a method is called with one.  A value is a GVariant with a count of *)
(* references, the object that Lua has is its number, and an error may end *)
(* a function at every argument it looks at.                               *)
(***************************************************************************)
EXTENDS Integers, Sequences, SequencesExt, FiniteSets

CONSTANTS ZoMaxValues,   \* bound: values a widget makes
          ZoMaxItems     \* bound: the elements of a tuple or array

ASSUME ZoAssumption == {ZoMaxValues, ZoMaxItems} \subseteq Nat

VARIABLES
  zoRefs,   \* the count of references of each value made so far
  zoKids,   \* the values it was made of
  zoObj,    \* its object: "live", or "final" after __gc
  zo        \* the function that runs: pc, fn, todo (arguments), held (references to values),
            \* strs (how many strings it has copied)

zovars == <<zoRefs, zoKids, zoObj, zo>>

Made == 1..Len(zoRefs)

\* The functions with a table of parameters: how many strings they take, and if a value.
CallFunctions ==
  {[name |-> "call_method", strs |-> 4, value |-> TRUE],
   [name |-> "get_all_properties", strs |-> 3, value |-> FALSE],
   [name |-> "set_property", strs |-> 4, value |-> TRUE]}

ZoIdle == [pc |-> "idle", fn |-> "none", todo |-> <<>>, held |-> <<>>, strs |-> 0]

ZoStart(pc) ==
  /\ zoRefs = <<>> /\ zoKids = <<>> /\ zoObj = <<>>
  /\ zo = [ZoIdle EXCEPT !.pc = pc]

ZoInit == ZoStart("idle")
ZoOff  == ZoStart("off")

Idle == zo.pc = "idle"
-----------------------------------------------------------------------------
(* References.                                                             *)

CountIn(list, v) == Cardinality({i \in 1..Len(list) : list[i] = v})

\* Where v is in other values: which, and the how manieth of its kids.
PlacesOf(v) == UNION {{u} \X {i \in 1..Len(zoKids[u]) : zoKids[u][i] = v} : u \in Made}

\* g_variant_ref().
Ref(refs, v) == [refs EXCEPT ![v] = @ + 1]

\* g_variant_unref(), which frees what has no reference left and gives up the references it
\* has itself; these are to values made earlier.
UnrefAll(refs, list) ==
  LET left[v \in Made] ==
        LET freed == {p \in PlacesOf(v) : p[1] > v /\ left[p[1]] <= 0 /\ refs[p[1]] > 0}
        IN refs[v] - CountIn(list, v) - Cardinality(freed)
  IN left

\* make_vobj_from_floating(): a new value with its object, which has the one reference;
\* the new value refers to each kid, and then references that were held are given up.
MakeValue(kids, held) ==
  /\ zoRefs' = Append(UnrefAll([v \in Made |-> zoRefs[v] + CountIn(kids, v)], held), 1)
  /\ zoKids' = Append(zoKids, kids)
  /\ zoObj' = Append(zoObj, "live")

CanMake == Len(zoRefs) < ZoMaxValues

\* fetch_gvar_borrow(): an error if the object is final.
Fetchable(v) == zoObj[v] = "live"
-----------------------------------------------------------------------------
\* mkval_simple() of a plain type, and of "v", which boxes a value; mkval_dict_entry().
MkvalSimple ==
  /\ Idle /\ CanMake
  /\ \E kids \in {<<>>} \cup {<<v>> : v \in Made} \cup (Made \X Made) :
       /\ \A i \in 1..Len(kids) : Fetchable(kids[i])
       /\ MakeValue(kids, <<>>)
  /\ UNCHANGED zo

\* The garbage collector, or the widget, calls __gc of an object that the function that
\* runs does not have among its arguments.
VobjGc(v) ==
  /\ zo.pc \notin {"off", "unloaded", "closed", "crashed"} /\ zoObj[v] = "live" /\ v \notin ToSet(zo.todo)
  /\ zoObj' = [zoObj EXCEPT ![v] = "final"]
  /\ zoRefs' = UnrefAll(zoRefs, <<v>>)
  /\ UNCHANGED <<zoKids, zo>>

\* mkval_tuple(), mkval_array(): the elements of the table.
StartMake(items) ==
  /\ Idle /\ CanMake
  /\ zo' = [zo EXCEPT !.pc = "items", !.fn = "mkval", !.todo = items]
  /\ UNCHANGED <<zoRefs, zoKids, zoObj>>

\* An element is taken, and referred to at once; or it is final, no value or of a wrong
\* type, and the function ends with an error.
TakeItem ==
  /\ zo.pc = "items" /\ zo.todo # <<>>
  /\ LET v == Head(zo.todo) IN
       \/ /\ Fetchable(v)
          /\ zoRefs' = Ref(zoRefs, v)
          /\ zo' = [zo EXCEPT !.todo = Tail(@), !.held = Append(@, v)]
       \/ /\ zo' = [zo EXCEPT !.pc = "failed", !.todo = <<>>]
          /\ UNCHANGED zoRefs
  /\ UNCHANGED <<zoKids, zoObj>>

\* Mutant: after an error the references are kept.
EndMakeLeaks ==
  /\ \/ zo.pc = "items" /\ zo.todo = <<>> /\ MakeValue(zo.held, zo.held)
     \/ zo.pc = "failed" /\ zo.fn = "mkval" /\ UNCHANGED <<zoRefs, zoKids, zoObj>>
  /\ zo' = ZoIdle

\* The value is made, and free_ud() gives the references up, with or without an error.
EndMake ==
  /\ \/ zo.pc = "items" /\ zo.todo = <<>> /\ MakeValue(zo.held, zo.held)
     \/ /\ zo.pc = "failed" /\ zo.fn = "mkval"
        /\ zoRefs' = UnrefAll(zoRefs, zo.held) /\ UNCHANGED <<zoKids, zoObj>>
  /\ zo' = ZoIdle
-----------------------------------------------------------------------------
\* zoo_call_params_parse(): the bus, the strings, the value if there is one, the flags.
StartCall(f, args) ==
  /\ Idle /\ Len(args) = IF f.value THEN 1 ELSE 0
  /\ zo' = [zo EXCEPT !.pc = "params", !.fn = f.name, !.todo = args]
  /\ UNCHANGED <<zoRefs, zoKids, zoObj>>

\* do_bus_type(), do_str(): the strings, or an error after some of them.
ParseStrings ==
  /\ zo.pc = "params" /\ zo.strs = 0
  /\ \E f \in {g \in CallFunctions : g.name = zo.fn} :
       \/ zo' = [zo EXCEPT !.pc = "value", !.strs = f.strs]
       \/ \E k \in 0..(f.strs - 1) : zo' = [zo EXCEPT !.pc = "failed", !.strs = k, !.todo = <<>>]
  /\ UNCHANGED <<zoRefs, zoKids, zoObj>>

\* do_gvalue(): it is referred to before its type is looked at, and may still be wrong, as
\* may the flags and the timeout.
ParseValue ==
  /\ zo.pc = "value"
  /\ \E ok \in BOOLEAN :
       IF zo.todo # <<>> /\ Fetchable(zo.todo[1])
       THEN /\ zoRefs' = Ref(zoRefs, zo.todo[1])
            /\ zo' = [zo EXCEPT !.pc = IF ok THEN "call" ELSE "failed",
                                !.held = zo.todo, !.todo = <<>>]
       ELSE /\ zo' = [zo EXCEPT !.pc = IF ok /\ zo.todo = <<>> THEN "call" ELSE "failed",
                                !.todo = <<>>]
            /\ UNCHANGED zoRefs
  /\ UNCHANGED <<zoKids, zoObj>>

\* do_the_bloody_thing(): there is no connection, or the method returns a value or an
\* error; none of them changes what is referred to.
Call ==
  /\ zo.pc = "call"
  /\ zo' = [zo EXCEPT !.pc = "called"]
  /\ UNCHANGED <<zoRefs, zoKids, zoObj>>

\* zoo_call_params_free().
EndCall ==
  /\ zo.pc = "called" \/ (zo.pc = "failed" /\ zo.fn # "mkval")
  /\ zoRefs' = UnrefAll(zoRefs, zo.held)
  /\ zo' = ZoIdle
  /\ UNCHANGED <<zoKids, zoObj>>

(* The end of the widget, when all have returned and -e is given.          *)

\* widget_destroy() unloads the plugin, and vobj_gc() with it,
PluginUnload ==
  /\ Idle
  /\ zo' = [zo EXCEPT !.pc = "unloaded"]
  /\ UNCHANGED <<zoRefs, zoKids, zoObj>>

\* and then lua_close() calls the finalizers of all objects that are left.
LuaClose ==
  /\ zo.pc = "unloaded"
  /\ zo' = [zo EXCEPT !.pc = IF "live" \in ToSet(zoObj) THEN "crashed" ELSE "closed"]
  /\ UNCHANGED <<zoRefs, zoKids, zoObj>>

Items == UNION {[1..n -> Made] : n \in 0..ZoMaxItems}

ZoNext ==
  \/ MkvalSimple \/ TakeItem \/ EndMake \/ ParseStrings \/ ParseValue \/ Call \/ EndCall
  \/ PluginUnload \/ LuaClose
  \/ \E v \in Made : VobjGc(v)
  \/ \E items \in Items : StartMake(items)
  \/ \E f \in CallFunctions, args \in {<<>>} \cup {<<v>> : v \in Made} : StartCall(f, args)

ZoSpec == ZoInit /\ [][ZoNext]_zovars
-----------------------------------------------------------------------------
\* Every reference to a value is somebody's: the live object's, a value's that was made of
\* it and is not freed, or the running function's.  So no value is freed while it is used,
\* and none is kept for good when a function ends with an error halfway.
ReferencesAreOwned ==
  \A v \in Made :
    zoRefs[v] = (IF zoObj[v] = "live" THEN 1 ELSE 0)
                + CountIn(zo.held, v)
                + Cardinality({p \in PlacesOf(v) : zoRefs[p[1]] > 0})

\* With -e the process ends normally when all have returned: no finalizer is called that is
\* not there any more.
ExitsNormally == zo.pc # "crashed"
=============================================================================
