------------------------------ MODULE NetPing -------------------------------
(* NetPingManager.java: the delay measurement by timed connects, run either  *)
(* by the caller (getDelay2) or by a handler thread that reschedules itself  *)
(* (getDelay) until the owner releases the manager.  release() is only       *)
(* synchronized against itself, so each of its assignments is a step that    *)
(* may fall between a null test and the use it guards on the ping thread.    *)
(* Left out: TIME_OUT, which only changes how long a connect may block.      *)
EXTENDS Integers, Sequences

CONSTANTS
  Samples,      \* what a connect can store: ms >= 0, -1 timeout, -2 IO error
  Addresses,    \* how many addresses the domain can resolve to
  MaxCalls      \* bound: calls of getDelay and getDelay2

CONN_TIMES == 4

ASSUME PingAssumption ==
  /\ Samples \subseteq Int /\ \A s \in Samples : s >= -2
  /\ Addresses \subseteq Nat \ {0}
  /\ MaxCalls \in Nat

VARIABLES
  async,        \* the manager was built with a listener and a handler thread
  manager, listener, hthread,   \* the field is not null
  list,         \* size of mAddressIpList, or Null
  addrs,        \* length of mAddress, 0 when null
  rtt,          \* RttTimes, kept from call to call
  due, delayed, \* messages in the looper's queue: ready, or waiting
  quit,         \* the looper was told to quit
  pc,           \* the ping thread (the caller, when ~async)
  taken,        \* connects made by the diagnosis in progress or last finished
  result,       \* what the last diagnosis returned
  late,         \* the message in progress was taken after release returned
  rel,          \* the owner's place in release()
  calls

vars == <<async, manager, listener, hthread, list, addrs, rtt, due, delayed,
          quit, pc, taken, result, late, rel, calls>>

Null == -1

fields == <<async, manager, listener, hthread, list>>
queue  == <<due, delayed, quit>>
owner  == <<rel, calls>>
ping   == <<addrs, rtt, taken, result, late>>

\* "idle"; "clear": about to clear the list; "net": to test the network; "info":
\* manager seen; "error": listener seen, to report no network; "resolve"; "slow":
\* to resolve again; "add"; "exec"; "first": to take the first address;
\* "connect"; "mean"; "report": listener seen; "again": diagnosis over; "send":
\* handler thread seen; "died": an exception ended the process.
PCs == {"idle", "clear", "net", "info", "error", "resolve", "slow", "add", "exec",
        "first", "connect", "mean", "report", "again", "send", "died"}

RelSteps == <<"no", "manager", "messages", "quit", "thread", "listener", "clear",
              "null", "done">>

Init ==
  /\ async \in BOOLEAN
  /\ manager \in BOOLEAN        \* null when constructed without a context
  /\ listener = async /\ hthread = async
  /\ list = 0 /\ addrs = 0
  /\ rtt = [k \in 1 .. CONN_TIMES |-> 0]
  /\ due = 0 /\ delayed = 0 /\ quit = FALSE
  /\ pc = "idle" /\ taken = 0 /\ result = 0 /\ late = FALSE
  /\ rel = "no" /\ calls = 0

Goto(to)  == pc' = to
Die       == Goto("died") /\ UNCHANGED <<fields, ping, queue, owner>>
OwnerFree == rel \in {"no", "done"} /\ pc # "died" /\ (async \/ pc = "idle")

-----------------------------------------------------------------------------
\* The owner of the manager.

\* sendEmptyMessage(0); a looper that quits takes no more messages.
getDelay ==
  /\ OwnerFree /\ async /\ calls < MaxCalls
  /\ calls' = calls + 1
  /\ due' = IF quit THEN due ELSE due + 1
  /\ UNCHANGED <<fields, ping, delayed, quit, pc, rel>>

getDelay2 ==
  /\ OwnerFree /\ ~async /\ calls < MaxCalls
  /\ calls' = calls + 1
  /\ taken' = 0
  /\ Goto(IF list # Null THEN "clear" ELSE "net")
  /\ UNCHANGED <<fields, queue, addrs, rtt, result, late, rel>>

beginRelease ==
  /\ OwnerFree /\ rel = "no"
  /\ rel' = "manager"
  /\ UNCHANGED <<fields, ping, queue, pc, calls>>

\* A bug: release() returns before it stops the handler thread.
RelNext_LeavesThread(s) ==
  IF s = "messages" THEN "done"
  ELSE RelSteps[1 + CHOOSE k \in 1 .. Len(RelSteps) - 1 : RelSteps[k] = s]

\* The next statement of release() after the one named s.
RelNext(s) == RelSteps[1 + CHOOSE k \in 1 .. Len(RelSteps) - 1 : RelSteps[k] = s]

\* One statement of release().  quitSafely drops the messages that are not due.
release ==
  /\ rel \notin {"no", "done"} /\ pc # "died"
  /\ rel' = RelNext(rel)
  /\ manager'  = (manager /\ rel # "manager")
  /\ due'      = IF rel = "messages" /\ async THEN 0 ELSE due
  /\ delayed'  = IF rel \in {"messages", "quit"} /\ async THEN 0 ELSE delayed
  /\ quit'     = (quit \/ (rel = "quit" /\ hthread))
  /\ hthread'  = (hthread /\ rel # "thread")
  /\ listener' = (listener /\ rel # "listener")
  /\ list'     = CASE rel = "clear" /\ list # Null -> 0
                   [] rel = "null" -> Null
                   [] OTHER -> list
  /\ UNCHANGED <<async, ping, pc, calls>>

-----------------------------------------------------------------------------
\* The looper of the handler thread.

messageDue ==
  /\ delayed > 0 /\ pc # "died"
  /\ delayed' = delayed - 1 /\ due' = due + 1
  /\ UNCHANGED <<fields, ping, quit, owner, pc>>

handleMessage ==
  /\ pc = "idle" /\ async /\ due > 0
  /\ due' = due - 1
  /\ taken' = 0
  /\ late' = (rel = "done")
  /\ Goto(IF list # Null THEN "clear" ELSE "net")
  /\ UNCHANGED <<fields, addrs, rtt, result, delayed, quit, owner>>

\* A bug: only a diagnosis that measured something is followed by another.
reschedule_AfterSuccess ==
  /\ pc = "again"
  /\ Goto(IF async /\ hthread /\ result >= 0 THEN "send" ELSE "idle")
  /\ UNCHANGED <<fields, ping, queue, owner>>

\* if (null != mHandlerThread), then sendEmptyMessageDelayed; the caller of
\* getDelay2 returns instead.
reschedule ==
  /\ pc = "again"
  /\ Goto(IF async /\ hthread THEN "send" ELSE "idle")
  /\ UNCHANGED <<fields, ping, queue, owner>>

sendDelayed ==
  /\ pc = "send"
  /\ delayed' = IF quit THEN delayed ELSE delayed + 1
  /\ Goto("idle")
  /\ UNCHANGED <<fields, ping, due, quit, owner>>

-----------------------------------------------------------------------------
\* One diagnosis.

Return(n) == result' = n /\ Goto("again")

\* A bug: the list keeps the addresses of the diagnosis before.
clearList_Keeps ==
  /\ pc = "clear"
  /\ IF list = Null THEN Die
     ELSE Goto("net") /\ UNCHANGED <<fields, ping, queue, owner>>

clearList ==
  /\ pc = "clear"
  /\ IF list = Null THEN Die
     ELSE /\ list' = 0 /\ Goto("net")
          /\ UNCHANGED <<async, manager, listener, hthread, ping, queue, owner>>

\* No network: the listener hears onError, the diagnosis returns -1.
NotConnected ==
  /\ IF listener THEN Goto("error") /\ UNCHANGED result ELSE Return(-1)
  /\ UNCHANGED <<fields, addrs, rtt, taken, late, queue, owner>>

\* A bug: no test of mConnectivityManager.
isNetworkConnected_NoNullTest ==
  /\ pc = "net"
  /\ Goto("info")
  /\ UNCHANGED <<fields, ping, queue, owner>>

isNetworkConnected ==
  /\ pc = "net"
  /\ IF manager THEN Goto("info") /\ UNCHANGED <<fields, ping, queue, owner>>
     ELSE NotConnected

getActiveNetworkInfo ==
  /\ pc = "info"
  /\ IF ~manager THEN Die
     ELSE \/ Goto("resolve") /\ UNCHANGED <<fields, ping, queue, owner>>
          \/ NotConnected

onError ==
  /\ pc = "error"
  /\ IF ~listener THEN Die
     ELSE Return(-1) /\ UNCHANGED <<fields, addrs, rtt, taken, late, queue, owner>>

\* InetAddress.getAllByName; a first failure that took over ten seconds is tried
\* once more.
parseDomain ==
  /\ pc \in {"resolve", "slow"}
  /\ \/ \E n \in Addresses : addrs' = n /\ Goto("add")
     \/ addrs' = 0 /\ Goto("exec")
     \/ addrs' = 0 /\ Goto(IF pc = "resolve" THEN "slow" ELSE "exec")
  /\ UNCHANGED <<fields, rtt, taken, result, late, queue, owner>>

\* A bug: the address is looked up but not stored.
addAddress_Forgets ==
  /\ pc = "add"
  /\ Goto("exec")
  /\ UNCHANGED <<fields, ping, queue, owner>>

addAddress ==
  /\ pc = "add"
  /\ IF list = Null THEN Die
     ELSE /\ list' = list + 1 /\ Goto("exec")
          /\ UNCHANGED <<async, manager, listener, hthread, ping, queue, owner>>

execUseJava ==
  /\ pc = "exec"
  /\ IF addrs > 1 /\ list # Null
     THEN Goto("first") /\ UNCHANGED result
     ELSE Return(-1)
  /\ UNCHANGED <<fields, addrs, rtt, taken, late, queue, owner>>

\* mAddressIpList.get(0)
firstAddress ==
  /\ pc = "first"
  /\ IF list \in {Null, 0} THEN Die
     ELSE Goto("connect") /\ UNCHANGED <<fields, ping, queue, owner>>

\* A bug: any two failures in a row.
StopsAt_AnyTwo(k, r) == r[k] < 0 /\ k > 1 /\ r[k - 1] < 0

\* One pass of the loop of execIP: execSocket, then the test that stops after
\* two failures of one kind in a row.
StopsAt(k, r) == r[k] < 0 /\ k > 1 /\ r[k - 1] = r[k]

execSocket ==
  /\ pc = "connect"
  /\ taken' = taken + 1
  /\ \E s \in Samples : rtt' = [rtt EXCEPT ![taken'] = s]
  /\ IF StopsAt(taken', rtt') THEN Return(-1)
     ELSE /\ Goto(IF taken' = CONN_TIMES THEN "mean" ELSE "connect")
          /\ UNCHANGED result
  /\ UNCHANGED <<fields, addrs, late, queue, owner>>

\* The samples that count are summed up one after the other.
Time[k \in 0 .. CONN_TIMES] ==
  IF k = 0 THEN 0 ELSE Time[k - 1] + (IF rtt[k] > 0 THEN rtt[k] ELSE 0)

Count[k \in 0 .. CONN_TIMES] ==
  IF k = 0 THEN 0 ELSE Count[k - 1] + (IF rtt[k] > 0 THEN 1 ELSE 0)

\* A bug: the sum is divided by the number of connects.
Mean_OverAll == Time[CONN_TIMES] \div CONN_TIMES

\* Their mean, 0 when there is none.
Mean == IF Count[CONN_TIMES] = 0 THEN 0 ELSE Time[CONN_TIMES] \div Count[CONN_TIMES]

execIP ==
  /\ pc = "mean"
  /\ result' = Mean
  /\ Goto(IF Count[CONN_TIMES] > 0 /\ listener THEN "report" ELSE "again")
  /\ UNCHANGED <<fields, addrs, rtt, taken, late, queue, owner>>

ontDelay ==
  /\ pc = "report"
  /\ IF ~listener THEN Die
     ELSE Goto("again") /\ UNCHANGED <<fields, ping, queue, owner>>

Diagnose ==
  \/ clearList \/ isNetworkConnected \/ getActiveNetworkInfo \/ onError
  \/ parseDomain \/ addAddress \/ execUseJava \/ firstAddress \/ execSocket
  \/ execIP \/ ontDelay \/ reschedule \/ sendDelayed

Next ==
  \/ getDelay \/ getDelay2 \/ beginRelease \/ release
  \/ messageDue \/ handleMessage
  \/ Diagnose

Spec == Init /\ [][Next]_vars

\* The ping thread and its looper run, a started release() goes on to its end;
\* connects and lookups have timeouts.
Fairness == WF_vars(Diagnose \/ handleMessage) /\ WF_vars(messageDue) /\ WF_vars(release)

FairSpec == Spec /\ Fairness

-----------------------------------------------------------------------------
\* The values of the state.
TypeOK ==
  /\ {async, manager, listener, hthread, quit, late} \subseteq BOOLEAN
  /\ list \in Null .. 1 /\ addrs \in Addresses \cup {0}
  /\ rtt \in [1 .. CONN_TIMES -> Samples \cup {0}]
  /\ due \in 0 .. MaxCalls /\ delayed \in 0 .. MaxCalls
  /\ pc \in PCs /\ taken \in 0 .. CONN_TIMES /\ result \in Int
  /\ rel \in {RelSteps[k] : k \in 1 .. Len(RelSteps)} /\ calls \in 0 .. MaxCalls

\* The exceptions that can end the ping thread all come from release() pulling a
\* field away between a test and its use: without a release, nothing dies.
DiesOnlyInRelease == pc = "died" => rel # "no" /\ async

\* A message the looper still delivers after release() has returned (its delay
\* ran out before quitSafely) neither touches the network nor dies.
LateMessageHarmless ==
  late => pc \in {"idle", "net", "again"}

\* The samples that are a delay.
Measured == {k \in 1 .. CONN_TIMES : rtt[k] > 0}

\* A delay comes from the connects of its own diagnosis, not from what RttTimes
\* still holds from earlier ones: it lies between the fastest and the slowest of
\* them, and is 0 only when none took a measurable time.
DelayFromOwnSamples ==
  pc = "again" /\ result >= 0 =>
    /\ taken = CONN_TIMES
    /\ IF Measured = {} THEN result = 0
       ELSE /\ \E k \in Measured : rtt[k] <= result
            /\ \E k \in Measured : rtt[k] >= result

\* A diagnosis that connected gives up exactly when its last two connects failed
\* in the same way.
GivesUpOnTwoInARow ==
  pc = "again" /\ taken > 0 =>
    (result = -1 <=> taken > 1 /\ rtt[taken] < 0 /\ rtt[taken - 1] = rtt[taken])

\* Messages queued or being handled.
Chains == due + delayed + (IF pc \in {"idle", "died"} \/ ~async THEN 0 ELSE 1)

\* Each getDelay starts a chain of measurements that nothing but release() ends:
\* a second call doubles the rate of the measurements for good.
ChainsPersist == [][rel = "no" /\ async => Chains' >= Chains]_vars

\* readme.md:137-139: getNetworkDelay answers the current delay in ms.  On a
\* network that is up, with a host that resolves and accepts every connect, a
\* finished measurement is then a delay.
DelayMeasured ==
  pc = "again" /\ rel = "no" /\ manager /\ list = 1 /\ (\A s \in Samples : s >= 0)
    => result >= 0

\* After release() the ping thread comes to rest, whatever it was doing and
\* whatever was queued.
RestsAfterRelease == rel = "done" /\ async ~> [](pc \in {"idle", "died"})
=============================================================================
