------------------------------ MODULE Network ------------------------------
(***************************************************************************)
(* The network-linux plugin (plugins/network-linux/network.c, strset*.c):  *)
(* it asks the kernel for the interfaces after each message of a netlink   *)
(* socket, and on a timeout or a wake-up, when it does not find out again  *)
(* which interfaces are wireless but looks them up in a sorted list.       *)
(*                                                                         *)
(* The interfaces change while the thread asks, one question at a time.    *)
(* An interface is a number, its name's place in the order of strcmp().    *)
(***************************************************************************)
EXTENDS Integers, Sequences, SequencesExt, FiniteSetsExt, Functions

CONSTANTS NwIfaces,      \* how many interfaces there may be
          NwQueue,       \* bound: the messages the socket's buffer holds
          NwMaxChanges,  \* bound: changes of an interface
          NwMaxWakeUps   \* bound: calls of wake_up()

ASSUME NwAssumption == {NwIfaces, NwQueue, NwMaxChanges, NwMaxWakeUps} \subseteq Nat

VARIABLES
  nwOpt,   \* the options
  nw,      \* the plugin's thread: pc, todo (the rest of what getifaddrs() returned),
           \* refresh, what and table (of the call), wlan (wlan_ifaces)
  nwKern,  \* the kernel: kind of each interface, msgs in the buffer, full (one was lost),
           \* bound (the socket is), pipe (bytes in the self-pipe)
  nwTold,  \* the last call: what, table
  nwPast   \* changes, wakeUps, sound (no refresh failed since the last one that did not)

nwvars == <<nwOpt, nw, nwKern, nwTold, nwPast>>

Ifaces == 1..NwIfaces

\* init() and its defaults; new_ip_fmt and new_overall_fmt are the form of a call only,
\* and the socket for ethernet, which may be missing, changes nothing here.
NwOptions == [wireless : BOOLEAN, timeout : BOOLEAN, self_pipe : BOOLEAN]

NwStart(pc) ==
  /\ nw = [pc |-> pc, todo |-> <<>>, refresh |-> FALSE, wlan |-> <<>>, table |-> {},
           what |-> "none"]
  /\ nwKern = [kind |-> [i \in Ifaces |-> "absent"], msgs |-> 0, full |-> FALSE,
               bound |-> FALSE, pipe |-> 0]
  /\ nwTold = [what |-> "none", table |-> {}]
  /\ nwPast = [changes |-> 0, wakeUps |-> 0, sound |-> FALSE]

NwInit == nwOpt \in NwOptions /\ NwStart("open")
NwOff  == nwOpt = (CHOOSE o \in NwOptions : TRUE) /\ NwStart("returned")

\* What a call says of an interface: its name, and if it is told as a wireless one.
Entry(i, wlan) == [name |-> i, wireless |-> wlan /\ nwOpt.wireless]
KernelTable == {Entry(i, nwKern.kind[i] = "wlan") : i \in {j \in Ifaces : nwKern.kind[j] # "absent"}}
-----------------------------------------------------------------------------
(* The kernel and the widget.                                              *)

\* An interface comes, goes, or comes again as one of another kind; the bound socket gets
\* a message, or, its buffer being full, the next recvmsg() an ENOBUFS.
Change(i, k) ==
  /\ nw.pc # "returned" /\ nwPast.changes < NwMaxChanges /\ nwKern.kind[i] # k
  /\ LET fits == nwKern.msgs < NwQueue IN
       nwKern' = [nwKern EXCEPT !.kind[i] = k,
                                !.msgs = IF nwKern.bound /\ fits THEN @ + 1 ELSE @,
                                !.full = @ \/ (nwKern.bound /\ ~fits)]
  /\ nwPast' = [nwPast EXCEPT !.changes = @ + 1]
  /\ UNCHANGED <<nwOpt, nw, nwTold>>

\* wake_up().
NwWakeUp ==
  /\ nw.pc # "returned" /\ nwOpt.self_pipe /\ nwPast.wakeUps < NwMaxWakeUps
  /\ nwKern' = [nwKern EXCEPT !.pipe = @ + 1]
  /\ nwPast' = [nwPast EXCEPT !.wakeUps = @ + 1]
  /\ UNCHANGED <<nwOpt, nw, nwTold>>
-----------------------------------------------------------------------------
(* wlan_ifaces.                                                            *)

\* The loops of strset_mergesort(): how many of the left part are taken, and what is written,
\* after each round.
Merged(left, right) ==
  LET n == Len(left) + Len(right)
      round[k \in 0..n] ==
        IF k = 0 THEN <<0, <<>>>>
        ELSE LET i == round[k - 1][1]  j == k - 1 - i  data == round[k - 1][2]
             IN IF j = Len(right) \/ (i < Len(left) /\ left[i + 1] <= right[j + 1])
                THEN <<i + 1, Append(data, left[i + 1])>>
                ELSE <<i, Append(data, right[j + 1])>>
  IN round[n][2]

\* strset_mergesort(), of the list and of its parts.
MergeSort(list) ==
  LET sort[data \in BoundedSeq(ToSet(list), Len(list))] ==
        LET nleft == Len(data) \div 2
        IN IF Len(data) < 2 THEN data
           ELSE Merged(sort[SubSeq(data, 1, nleft)], sort[SubSeq(data, nleft + 1, Len(data))])
  IN sort[list]

\* strset_binsearch(): the interval of lengths 2^n, ..., 2, 1 that may hold x.
BinSearch(list, x) ==
  LET narrow[k \in 0..Len(list)] ==   \* <<l, r>> after k rounds
        IF k = 0 THEN <<0, Len(list)>>
        ELSE LET before == narrow[k - 1]  l == before[1]  r == before[2]  m == l + (r - l) \div 2
             IN IF r - l <= 1 THEN <<l, r>>
                ELSE IF list[m + 1] <= x THEN <<m, r>> ELSE <<l, m>>
      last == narrow[Len(list)]
  IN last[1] # last[2] /\ list[last[1] + 1] = x
-----------------------------------------------------------------------------
(* The plugin's thread.                                                    *)

NwIdle == [nw EXCEPT !.refresh = FALSE, !.what = "none", !.table = {}]
NwGoto(l) == [NwIdle EXCEPT !.pc = l]
MakeCall(refresh, what) == [nw EXCEPT !.pc = "getifaddrs", !.refresh = refresh, !.what = what]

\* report_error(), and what follows it.
ReportError(next) ==
  /\ nw' = NwGoto(next)
  /\ nwTold' = [what |-> "error", table |-> {}]

\* interact(): the socket is bound before the interfaces are asked for.
OpenSocket ==
  /\ nw.pc = "open"
  /\ \/ nw' = MakeCall(TRUE, "update") /\ nwKern' = [nwKern EXCEPT !.bound = TRUE]
     \/ nw' = NwGoto("returned") /\ UNCHANGED nwKern
  /\ UNCHANGED <<nwOpt, nwTold, nwPast>>

\* make_call() up to the loop: getifaddrs(), which may fail, and strset_reset().
GetIfaddrs ==
  /\ nw.pc = "getifaddrs"
  /\ \/ /\ \E list \in SetToSeqs({i \in Ifaces : nwKern.kind[i] # "absent"}) :
             nw' = [nw EXCEPT !.pc = "describe", !.todo = list,
                              !.wlan = IF nw.refresh THEN <<>> ELSE @]
        /\ nwPast' = IF nw.refresh THEN [nwPast EXCEPT !.sound = TRUE] ELSE nwPast
        /\ UNCHANGED nwTold
     \/ /\ ReportError("poll")
        /\ nwPast' = IF nw.refresh THEN [nwPast EXCEPT !.sound = FALSE] ELSE nwPast
  /\ UNCHANGED <<nwOpt, nwKern>>

\* The loop of make_call(): is_wlan_iface() asks the kernel, strset_contains() the list.
Describe ==
  /\ nw.pc = "describe" /\ nw.todo # <<>>
  /\ LET i == Head(nw.todo)
         wlan == IF nw.refresh THEN nwKern.kind[i] = "wlan" ELSE BinSearch(nw.wlan, i)
     IN nw' = [nw EXCEPT !.todo = Tail(@), !.table = @ \cup {Entry(i, wlan)},
                         !.wlan = IF nwOpt.wireless /\ nw.refresh /\ wlan
                                  THEN Append(@, i) ELSE @]
  /\ UNCHANGED <<nwOpt, nwKern, nwTold, nwPast>>

\* Mutant: the list is not sorted.
CallEndsUnsorted ==
  /\ nw.pc = "describe" /\ nw.todo = <<>>
  /\ nwTold' = [what |-> nw.what, table |-> nw.table]
  /\ nw' = [NwIdle EXCEPT !.pc = "poll"]
  /\ UNCHANGED <<nwOpt, nwKern, nwPast>>

\* end_call(), strset_freeze() and call_end().
CallEnds ==
  /\ nw.pc = "describe" /\ nw.todo = <<>>
  /\ nwTold' = [what |-> nw.what, table |-> nw.table]
  /\ nw' = [NwIdle EXCEPT !.pc = "poll", !.wlan = IF nw.refresh THEN MergeSort(@) ELSE @]
  /\ UNCHANGED <<nwOpt, nwKern, nwPast>>

\* my_recvmsg(): the self-pipe goes before the socket.
SelfPipe ==
  /\ nw.pc = "poll" /\ nwKern.pipe > 0
  /\ nw' = MakeCall(FALSE, "self_pipe")
  /\ nwKern' = [nwKern EXCEPT !.pipe = @ - 1]
  /\ UNCHANGED <<nwOpt, nwTold, nwPast>>

Timeout ==
  /\ nw.pc = "poll" /\ nwOpt.timeout
  /\ nwKern.pipe = 0 /\ nwKern.msgs = 0 /\ ~nwKern.full
  /\ nw' = MakeCall(FALSE, "timeout")
  /\ UNCHANGED <<nwOpt, nwKern, nwTold, nwPast>>

\* recvmsg() is interrupted; poll() is not.
NwInterrupted ==
  /\ nw.pc = "poll" /\ nwKern.pipe = 0 /\ nwKern.msgs > 0
  /\ nw' = MakeCall(TRUE, "update")
  /\ UNCHANGED <<nwOpt, nwKern, nwTold, nwPast>>

\* poll() or recvmsg() fails: interact() returns false.
RecvFails ==
  /\ nw.pc = "poll"
  /\ nw' = NwGoto("returned")
  /\ UNCHANGED <<nwOpt, nwKern, nwTold, nwPast>>

\* recvmsg() and interpret_nl_msg(), for which a message may be an error or cut short.
Recv ==
  /\ nw.pc = "poll" /\ nwKern.pipe = 0 /\ (nwKern.msgs > 0 \/ nwKern.full)
  /\ \/ /\ nwKern.full
        /\ nw' = NwGoto("resync") /\ nwKern' = [nwKern EXCEPT !.full = FALSE]
     \/ /\ ~nwKern.full
        /\ \/ nw' = MakeCall(TRUE, "update")
           \/ nw' = NwGoto("resync")
        /\ nwKern' = [nwKern EXCEPT !.msgs = @ - 1]
  /\ UNCHANGED <<nwOpt, nwTold, nwPast>>

\* run(): the socket is closed, with its messages, an error is told, and after five
\* seconds all begins again.
Resync ==
  /\ nw.pc = "resync"
  /\ ReportError("open")
  /\ nwKern' = [nwKern EXCEPT !.bound = FALSE, !.msgs = 0, !.full = FALSE]
  /\ UNCHANGED <<nwOpt, nwPast>>

NwThread ==
  \/ OpenSocket \/ GetIfaddrs \/ Describe \/ CallEnds \/ SelfPipe \/ Timeout \/ Recv \/ Resync

NwNext ==
  \/ \E i \in Ifaces, k \in {"absent", "ether", "wlan"} : Change(i, k)
  \/ NwWakeUp \/ NwThread \/ NwInterrupted \/ RecvFails

NwSpec == NwInit /\ [][NwNext]_nwvars
-----------------------------------------------------------------------------
\* When the thread sleeps with no message to read, and no refresh has failed, what the
\* widget was told last is how the interfaces are, although a refresh asks about one
\* interface after the other, and a timeout or a wake-up takes the kinds from the list.
ToldIsCurrent ==
  nw.pc = "poll" /\ nwKern.msgs = 0 /\ ~nwKern.full /\ nwPast.sound /\ nwTold.what # "error" =>
    nwTold.table = KernelTable
=============================================================================
