-------------------------------- MODULE Web --------------------------------
(***************************************************************************)
(* The web plugin (plugins/web/web.c, parse_opts.c, opts.c,                *)
(* make_request.c): a planner, a coroutine of the widget, is resumed again *)
(* and again and yields what to do next: a request, a sleep, a call of cb. *)
(* The handle of libcurl, the flags of a request, the kept string of a     *)
(* call and the status of the last sleep live through the rounds.          *)
(***************************************************************************)
EXTENDS Integers, FiniteSets

CONSTANTS WbPipeCapacity   \* bound: the bytes a pipe holds

ASSUME WbAssumption == WbPipeCapacity \in Nat \ {0}

VARIABLES
  wbOpt,   \* the options of the widget
  wb,      \* the plugin's thread: pc, nact, opts (set on the handle), flags (local_req_flags),
           \* what (kept for a call), wake (wakeup_status)
  wbPipe,  \* bytes in the self-pipe
  wbTold,  \* arg, what the planner was resumed with; call, what cb was called with
  wbPast   \* yielded (by the planner, last), slept ("no", "yes" if the pipe was ready),
           \* owed (a wake-up that no sleep has told of)

wbvars == <<wbOpt, wb, wbPipe, wbTold, wbPast>>

\* init(); debug_global is left out, it only logs.
WbOptions == [with_headers_global : BOOLEAN, self_pipe : BOOLEAN]

\* The flag "with_headers", which may be given as true or as false.
Flags == {"with_headers", "with_headers_false"}

\* What a planner can yield: an action, an option of the table "params" for each field, of
\* which one is not known and one has a value of a wrong type.
Params == {"url", "post_fields", "no_such_option", "bad_value"} \cup Flags
Tables == {s \in SUBSET Params : Cardinality(s) <= 3 /\ Cardinality(s \cap Flags) <= 1}
Yields ==
  [action : {"request"}, params : Tables]
    \cup [action : {"sleep"}, period : {"good", "bad"}]
    \cup [action : {"call_cb"}, what : {"w1", "w2", "bad"}]
    \cup [action : {"bad params", "unknown", "not a table", "two values", "finished", "error"}]
NoYield == [action |-> "none"]

WbStart(pc) ==
  /\ wb = [pc |-> pc, nact |-> "none", opts |-> {}, flags |-> {}, what |-> "none", wake |-> "nil"]
  /\ wbPipe = 0
  /\ wbTold = [arg |-> "nil", call |-> [what |-> "none"]]
  /\ wbPast = [yielded |-> NoYield, slept |-> "no", owed |-> FALSE]

WbInit == wbOpt \in WbOptions /\ WbStart("flash")
WbOff  == wbOpt = (CHOOSE o \in WbOptions : TRUE) /\ WbStart("returned")

WbGoto(l) == [wb EXCEPT !.pc = l]
-----------------------------------------------------------------------------
\* wake_up(), by the event handler or by whoever; a full pipe drops the byte.
WbWakeUp ==
  /\ wb.pc # "returned" /\ wbOpt.self_pipe
  /\ wbPipe' = IF wbPipe < WbPipeCapacity THEN wbPipe + 1 ELSE wbPipe
  /\ wbPast' = [wbPast EXCEPT !.owed = TRUE]
  /\ UNCHANGED <<wbOpt, wb, wbTold>>

\* Mutant: wakeup_status is not reset.
FlashCallKeepsStatus ==
  /\ wb.pc = "flash"
  /\ wbTold' = [wbTold EXCEPT !.arg = wb.wake]
  /\ wb' = WbGoto("planner")
  /\ UNCHANGED <<wbOpt, wbPipe, wbPast>>

\* make_flash_call() to the point where the planner runs: it is told the status of the
\* last sleep, once.
FlashCall ==
  /\ wb.pc = "flash"
  /\ wbTold' = [wbTold EXCEPT !.arg = wb.wake]
  /\ wb' = [WbGoto("planner") EXCEPT !.wake = "nil"]
  /\ UNCHANGED <<wbOpt, wbPipe, wbPast>>

\* parse_opts(), handle_option(): any order of the fields, and the first that is unknown
\* or cannot be applied ends it.
OptionsApply(p) == p \cap {"no_such_option", "bad_value"} = {} /\ "url" \in p

\* Mutant: clear_next_req_params() leaves the flags.
ParseRequestKeepsFlags(y) ==
  wb' = [WbGoto("act") EXCEPT !.nact = "request", !.opts = y.params \ Flags,
                              !.flags = @ \cup (y.params \cap Flags)]

\* parseY_request(), after clear_next_req_params(); check_if_our_flag() looks at the key only.
ParseRequest(y) ==
  wb' = [WbGoto("act") EXCEPT !.nact = "request", !.opts = y.params \ Flags,
                              !.flags = y.params \cap Flags]

\* parseY_sleep() and parseY_call_cb().
ParseSleep(y) == wb' = [WbGoto("act") EXCEPT !.nact = "sleep"]
ParseCallCb(y) == wb' = [WbGoto("act") EXCEPT !.nact = "call_cb", !.what = y.what]

\* The rest of make_flash_call(): what the planner yields is looked at by parseY(), and
\* run() returns if it is not an action, or if the planner is at its end or has failed.
PlannerYields(y) ==
  /\ wb.pc = "planner"
  /\ CASE y.action = "request" /\ OptionsApply(y.params) -> ParseRequest(y)
       [] y.action = "sleep" /\ y.period = "good" -> ParseSleep(y)
       [] y.action = "call_cb" /\ y.what # "bad"  -> ParseCallCb(y)
       [] OTHER -> wb' = WbGoto("returned")
  /\ wbPast' = [wbPast EXCEPT !.yielded = y]
  /\ UNCHANGED <<wbOpt, wbPipe, wbTold>>

\* action_call_cb().
ActionCallCb ==
  /\ wb.pc = "act" /\ wb.nact = "call_cb"
  /\ wbTold' = [wbTold EXCEPT !.call = [what |-> wb.what]]
  /\ wb' = [WbGoto("flash") EXCEPT !.what = "none"]
  /\ UNCHANGED <<wbOpt, wbPipe, wbPast>>

\* action_request(), make_request(): the response of libcurl, or an error, with the
\* headers, which are empty after an error, if the request or the widget wants them.
ActionRequest ==
  /\ wb.pc = "act" /\ wb.nact = "request"
  /\ LET headers == wbOpt.with_headers_global \/ wb.flags # {} IN
       \E status \in {"200", "0"} :
         wbTold' = [wbTold EXCEPT !.call = [what |-> "response", status |-> status,
                                            headers |-> headers, sent |-> wb.opts]]
  /\ wb' = WbGoto("flash")
  /\ UNCHANGED <<wbOpt, wbPipe, wbPast>>

\* action_sleep(): it ends after its period, or, with a self-pipe, as soon as there is a
\* byte, which is read.
ActionSleep ==
  /\ wb.pc = "act" /\ wb.nact = "sleep"
  /\ LET ready == wbPipe > 0 IN
       /\ wb' = [WbGoto("flash") EXCEPT !.wake = IF ~wbOpt.self_pipe THEN @
                                                 ELSE IF ready THEN "true" ELSE "false"]
       /\ wbPipe' = IF ready THEN wbPipe - 1 ELSE wbPipe
       /\ wbPast' = [wbPast EXCEPT !.slept = IF wbPast.owed \/ ready THEN "yes" ELSE "no",
                                   !.owed = FALSE]
  /\ UNCHANGED <<wbOpt, wbTold>>

WbThread ==
  FlashCall \/ (\E y \in Yields : PlannerYields(y)) \/ ActionCallCb \/ ActionRequest \/ ActionSleep

WbNext == WbWakeUp \/ WbThread

WbSpec == WbInit /\ [][WbNext]_wbvars
-----------------------------------------------------------------------------
\* The planner is resumed with the answer to what it yielded and to nothing else: after a
\* sleep that wake_up() can end with a boolean, which is false only if no wake-up since the
\* last true was left, one that came during a request or a call included; after a request
\* or a call with nil. Nothing is claimed of a sleep without a self-pipe: the code resumes
\* the planner with nil, where README.rst:63-64 promises a boolean after every sleep.
PlannerToldOfWakeUps ==
  wb.pc = "planner" =>
    /\ wbPast.yielded.action # "sleep" => wbTold.arg = "nil"
    /\ wbPast.yielded.action = "sleep" /\ wbOpt.self_pipe =>
         wbTold.arg = IF wbPast.slept = "yes" THEN "true" ELSE "false"

\* What a request sends, and whether the response is told with its headers, depends on the
\* options of this request and on the global one, and not on those of earlier requests,
\* which were set on the same handle. Nothing is claimed of the headers where the code and
\* README.rst disagree: after an error it promises an empty table always (153), and the
\* code gives one only if headers were asked for; and with_headers = false is documented
\* as "whether to" (131-134), but the code takes it for true.
ResponseFitsRequest ==
  LET told    == wbTold.call
      options == wbPast.yielded.params
      asked   == wbOpt.with_headers_global \/ "with_headers" \in options
  IN wb.pc = "flash" /\ wbPast.yielded.action = "request" =>
       /\ told.sent = options \ {"with_headers", "with_headers_false"}
       /\ told.status # "0" /\ (asked \/ "with_headers_false" \notin options) =>
            told.headers = asked
=============================================================================
