------------------------------ MODULE AdapterGroup ------------------------------
(***************************************************************************)
(* AdapterProxyGroup and AdapterProxy: which server of a group a call goes *)
(* to, and how a server whose calls time out is disabled and tried again.  *)
(*                                                                         *)
(* Times are kept as ages, up to the interval they are compared with; the  *)
(* age of _lastRetryTime is kept of disabled adapters, where it is read.  A *)
(* call is chosen an adapter and sent in one step (RpcClient has the queue *)
(* in between); one with a hash or grid code is sent by the adapter chosen *)
(* for it, any other by an adapter that is connected.                      *)
(***************************************************************************)
EXTENDS Integers

CONSTANTS
  N,               \* adapterProxys.size()
  TryInterval,     \* tryTimeInterval
  CheckInterval,   \* checkTimeoutInterval
  TransInterval,   \* _checkTransInterval
  FailFrequency,   \* frequenceFailInvoke
  FailInterval,    \* the 10 of finishInvoke
  MinTimeouts,     \* minTimeoutInvoke
  Radio,           \* radio, in percent
  MaxOut,          \* calls an adapter has outstanding (bound)
  MaxTotal         \* calls counted in one interval (bound)

GroupAssumption ==
  /\ {N, TryInterval, CheckInterval, FailFrequency} \subseteq Nat \ {0}
  /\ {TransInterval, FailInterval, MinTimeouts, Radio, MaxOut, MaxTotal} \subseteq Nat

Members == 1 .. N

VARIABLES
  position,   \* lastRoundPosition, plus 1
  ad,         \* the AdapterProxys
  out,        \* the calls each has sent: to be answered, or lost
  server,     \* what each server does: "up", "silent" or "down"
  since,      \* time since each disabled one was disabled or found valid (history)
  pick        \* the adapter chosen by the last step, 0 if none (history)

vars == <<position, ad, out, server, since, pick>>

FinishLimit == IF CheckInterval > FailInterval THEN CheckInterval ELSE FailInterval + 1

Adapter == [active : BOOLEAN, connected : BOOLEAN, retry : 0 .. TryInterval,
            finish : 0 .. FinishLimit, trans : 0 .. TransInterval + 1,
            total : 0 .. MaxTotal, timeouts : 0 .. MaxTotal, failures : 0 .. FailFrequency]

TypeOK ==
  /\ position \in Members
  /\ ad \in [Members -> Adapter]
  /\ out \in [Members -> [ok : 0 .. MaxOut, lost : 0 .. MaxOut]]
  /\ server \in [Members -> {"up", "silent", "down"}]
  /\ since \in [Members -> 0 .. TryInterval]
  /\ pick \in 0 .. N

(* _lastCheckTransTime begins at 0, ages ago.                              *)
Init ==
  /\ position = 1
  /\ ad = [a \in Members |->
             [active |-> TRUE, connected |-> FALSE, retry |-> 0, finish |-> 0,
              trans |-> TransInterval + 1, total |-> 0, timeouts |-> 0, failures |-> 0]]
  /\ out = [a \in Members |-> [ok |-> 0, lost |-> 0]]
  /\ server = [a \in Members |-> "up"]
  /\ since = [a \in Members |-> 0]
  /\ pick = 0

-----------------------------------------------------------------------------
(***************************************************************************)
(* Choosing.  A server that is down refuses connections.                   *)
(***************************************************************************)
Connects(a) == server[a] # "down"

CanTry(x) == x.active \/ x.retry >= TryInterval

(* Mutant: a check of a disabled adapter does not put off the next one. *)
CheckedUnmarked(x, a) ==
  IF ~CanTry(x) THEN x
  ELSE IF ~x.connected /\ x.trans > TransInterval
         THEN [x EXCEPT !.trans = 0, !.connected = Connects(a)]
         ELSE x

(* Adapter a, in state x, after checkActive, and what checkActive returns. *)
Checked(x, a) ==
  IF ~CanTry(x) THEN x
  ELSE IF ~x.connected /\ x.trans > TransInterval
         THEN [x EXCEPT !.retry = 0, !.trans = 0, !.connected = Connects(a)]
         ELSE [x EXCEPT !.retry = 0]

checkActive(x, a) == CanTry(x) /\ Checked(x, a).connected

Choice(p, x, found) == [pos |-> p, ad |-> x, chosen |-> found, valid |-> TRUE]

(***************************************************************************)
(* getNextValidProxy: the first valid one behind the last position.        *)
(***************************************************************************)
TryNext(last) ==
  LET a == (last.pos % N) + 1
  IN  IF last.chosen # 0 THEN last
      ELSE Choice(a, [last.ad EXCEPT ![a] = Checked(@, a)],
                  IF checkActive(last.ad[a], a) THEN a ELSE 0)

getNextValidProxy(x) ==
  LET round[n \in 0 .. N] == IF n = 0 THEN Choice(position, x, 0) ELSE TryNext(round[n - 1])
  IN  round[N]

(* The choices of selectFromGroup; hash is 0 for a call without hash code. *)
selectFromGroup(hash) ==
  LET checked == [ad EXCEPT ![hash] = Checked(@, hash)]
      next == getNextValidProxy(IF hash = 0 THEN ad ELSE checked)
  IN  IF hash # 0 /\ checkActive(ad[hash], hash) THEN {Choice(position, checked, hash)}
      ELSE IF next.chosen # 0 THEN {next}
      ELSE {[next EXCEPT !.chosen = a, !.valid = FALSE] : a \in Members}

(* selectTransceiver connects when there is no connection, at any time.    *)
Transceiver(x, a) == [x EXCEPT ![a].connected = @ \/ Connects(a)]

(* The calls of adapter a, o so far, with one more.                        *)
OneMore(o, a) ==
  IF server[a] = "up" THEN [o EXCEPT !.ok = @ + 1] ELSE [o EXCEPT !.lost = @ + 1]

Sent(a) ==
  /\ out[a].ok + out[a].lost < MaxOut
  /\ out' = [out EXCEPT ![a] = OneMore(@, a)]

Call(hash, own) ==
  \E c \in selectFromGroup(hash) :
    LET x == Transceiver(c.ad, c.chosen)
        senders == IF own THEN {c.chosen} ELSE {a \in Members : x[a].connected}
    IN  /\ position' = c.pos
        /\ ad' = x
        /\ since' = IF c.valid THEN [since EXCEPT ![c.chosen] = 0] ELSE since
        /\ pick' = c.chosen
        /\ IF x[c.chosen].connected THEN \E a \in senders : Sent(a) ELSE UNCHANGED out
        /\ UNCHANGED server

invoke(hash) == Call(hash, hash # 0)

-----------------------------------------------------------------------------
(***************************************************************************)
(* finishInvoke.  The test for a retry that has failed compares a duration *)
(* with a time, and is never true; such a call is counted as any other.    *)
(***************************************************************************)
Counted(x, bTimeout) ==
  [x EXCEPT !.failures = IF bTimeout THEN IF @ < FailFrequency THEN @ + 1 ELSE @ ELSE 0,
            !.total = @ + 1, !.timeouts = IF bTimeout THEN @ + 1 ELSE @]

Finished(x, bTimeout) ==
  IF ~x.active /\ ~bTimeout
    THEN [x EXCEPT !.active = TRUE, !.retry = 0, !.finish = 0, !.failures = 0, !.total = 1, !.timeouts = 0]
    ELSE Counted(x, bTimeout)

IntervalEnds(x) ==
  \/ x.finish >= CheckInterval
  \/ x.failures >= FailFrequency /\ x.finish > FailInterval

TooManyTimeouts(x) == x.timeouts >= MinTimeouts /\ 100 * x.timeouts >= Radio * x.total

NewInterval(x) == [x EXCEPT !.finish = 0, !.failures = 0, !.total = 0, !.timeouts = 0]

(* resetInvoke: the connections go, and so do the answers on them.         *)
finishInvoke(a, bTimeout, left) ==
  LET x == Finished(ad[a], bTimeout)
      ends == (ad[a].active \/ bTimeout) /\ IntervalEnds(x)
      disabled == ends /\ TooManyTimeouts(x)
  IN  /\ ends \/ x.total <= MaxTotal
      /\ ad' = [ad EXCEPT ![a] =
                  IF disabled
                    THEN [NewInterval(x) EXCEPT !.active = FALSE, !.connected = FALSE, !.retry = 0]
                  ELSE IF ends THEN NewInterval(x) ELSE x]
      /\ out' = [out EXCEPT ![a] = IF disabled THEN [ok |-> 0, lost |-> left.ok + left.lost]
                                   ELSE left]
      /\ since' = IF disabled \/ ~bTimeout THEN [since EXCEPT ![a] = 0] ELSE since
      /\ pick' = 0
      /\ UNCHANGED <<position, server>>

Answer(a) ==
  /\ out[a].ok > 0
  /\ finishInvoke(a, FALSE, [out[a] EXCEPT !.ok = @ - 1])

TimeOut(a) ==
  /\ out[a].lost > 0
  /\ finishInvoke(a, TRUE, [out[a] EXCEPT !.lost = @ - 1])

-----------------------------------------------------------------------------
(* A server stops, stops answering, or comes back (external).              *)
ServerChanges(a) ==
  /\ \E s \in {"up", "silent", "down"} \ {server[a]} :
       /\ server' = [server EXCEPT ![a] = s]
       /\ ad' = [ad EXCEPT ![a].connected = @ /\ s # "down"]
       /\ out' = IF s = "up" THEN out
                 ELSE [out EXCEPT ![a] = [ok |-> 0, lost |-> @.ok + @.lost]]
  /\ pick' = 0
  /\ UNCHANGED <<position, since>>

Older(age, limit) == IF age < limit THEN age + 1 ELSE age

Tick ==
  /\ ad' = [a \in Members |->
              [ad[a] EXCEPT !.retry = IF ad[a].active THEN 0 ELSE Older(@, TryInterval),
                            !.finish = Older(@, FinishLimit), !.trans = Older(@, TransInterval + 1)]]
  /\ since' = [a \in Members |-> IF ad[a].active THEN 0 ELSE Older(since[a], TryInterval)]
  /\ pick' = 0
  /\ UNCHANGED <<position, out, server>>

Next ==
  \/ \E hash \in 0 .. N : invoke(hash)
  \/ \E a \in Members : Answer(a) \/ TimeOut(a) \/ ServerChanges(a)
  \/ Tick

Spec == Init /\ [][Next]_vars

-----------------------------------------------------------------------------
(***************************************************************************)
(* Properties.                                                             *)
(***************************************************************************)

(* A disabled server gets a call sooner than tryTimeInterval after the     *)
(* last one only when no server of the group could take it: none that is   *)
(* enabled has a connection left when all have been checked.               *)
RetriesAreSpaced ==
  [][\A a \in Members :
       pick' = a /\ ~ad[a].active /\ since[a] < TryInterval =>
         \A b \in Members \ {a} : ~(ad'[b].active /\ ad'[b].connected)]_vars
==============================================================================
