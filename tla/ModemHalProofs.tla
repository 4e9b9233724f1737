--------------------------- MODULE ModemHalProofs ---------------------------
(* ModemConsistent of ModemHal, for any number of SDK threads, any signals   *)
(* and any number of messages and listeners.                                 *)
EXTENDS ModemHal, TLAPS

Answers  == {"none", "failure", "success", "value", "default", "nodbm", "dbm"}
Places   == [pc : {"idle", "post"}, answer : Answers]
Messages == [what : {"granted", "listen", "signal"}, value : Int]

\* The types of the variables the rest speaks of.
TypeInv ==
  /\ listeners \in Nat /\ asu \in Signals /\ sdk \in [Threads -> Places]
  /\ queue \in Seq(Messages)

\* A listen() waits, a deviceInit goes on and one has answered success only with
\* the field set; the system always answers the same service.
FieldInv ==
  /\ teleManager => service
  /\ \A i \in 1 .. Len(queue) : queue[i].what = "listen" => teleManager
  /\ \A t \in Threads : sdk[t].pc = "post" \/ sdk[t].answer = "success" => teleManager
  /\ crash \in {"null", "granted"} => ~teleManager
  /\ crash = "service" => teleManager
  /\ crash # "listen"

\* No message of q behind the i-th is a signal.
LastSignal(q, i) == \A j \in i + 1 .. Len(q) : q[j].what # "signal"

\* The last signal on its way is the present one.
SignalInv ==
  /\ \A i \in 1 .. Len(queue) :
       queue[i].what = "signal" /\ LastSignal(queue, i) => queue[i].value = asu
  /\ listeners = 0 => lastSignal = 0 /\ LastSignal(queue, 0)
  /\ listeners > 0 /\ LastSignal(queue, 0) => lastSignal = Dbm(asu)

IInv == TypeInv /\ FieldInv /\ SignalInv

-----------------------------------------------------------------------------
\* What a message is made of.
LEMMA MessageIs ==
  ASSUME NEW what \in {"granted", "listen", "signal"}, NEW v \in Int
  PROVE  /\ Message(what, v) \in Messages
         /\ Message(what, v).what = what /\ Message(what, v).value = v
BY DEF Message, Messages

\* Nothing waits and nothing is set at first.
LEMMA InitIInv == Init => IInv
BY DEF Init, IInv, TypeInv, FieldInv, SignalInv, LastSignal, Idle, Places, Answers

\* A message that is no signal is put behind the others.
LEMMA PostKeeps ==
  ASSUME IInv, NEW what \in {"granted", "listen"}, Post(what), UNCHANGED <<listeners, asu, lastSignal>>
  PROVE  /\ queue' \in Seq(Messages) /\ SignalInv'
         /\ \A i \in 1 .. Len(queue') : queue'[i].what = "listen" =>
              what = "listen" \/ \E k \in 1 .. Len(queue) : queue[k].what = "listen"
<1> DEFINE m == Message(what, 0)
<1>1. m \in Messages /\ m.what = what /\ m.value = 0
  BY MessageIs
<1>2. queue \in Seq(Messages) /\ queue' = Append(queue, m)
  BY DEF Post, IInv, TypeInv
<1> HIDE DEF m
<1>3. /\ queue' \in Seq(Messages) /\ Len(queue') = Len(queue) + 1
      /\ \A i \in 1 .. Len(queue) : queue'[i] = queue[i]
      /\ queue'[Len(queue) + 1] = m /\ Len(queue) \in Nat
  BY <1>1, <1>2
<1>4. \A i \in 0 .. Len(queue) : LastSignal(queue', i) <=> LastSignal(queue, i)
  <2> SUFFICES ASSUME NEW i \in 0 .. Len(queue)
               PROVE  LastSignal(queue', i) <=> LastSignal(queue, i)
    OBVIOUS
  <2>1. ASSUME LastSignal(queue', i) PROVE LastSignal(queue, i)
    BY <1>3, <2>1 DEF LastSignal
  <2>2. ASSUME LastSignal(queue, i), NEW j \in i + 1 .. Len(queue')
        PROVE  queue'[j].what # "signal"
    <3>1. CASE j = Len(queue) + 1
      BY <1>1, <1>3, <3>1
    <3>2. CASE j \in i + 1 .. Len(queue)
      BY <1>3, <2>2, <3>2 DEF LastSignal
    <3> QED
      BY <1>3, <3>1, <3>2
  <2> QED
    BY <2>1, <2>2 DEF LastSignal
<1>5. SignalInv'
  <2>1. ASSUME NEW i \in 1 .. Len(queue'), queue'[i].what = "signal", LastSignal(queue', i)
        PROVE  queue'[i].value = asu
    <3>1. i \in 1 .. Len(queue)
      BY <1>1, <1>3, <2>1
    <3>2. i \in 0 .. Len(queue)
      BY <3>1
    <3> QED
      BY <1>3, <1>4, <2>1, <3>1, <3>2 DEF IInv, SignalInv
  <2>2. LastSignal(queue', 0) <=> LastSignal(queue, 0)
    BY <1>3, <1>4
  <2> QED
    BY <2>1, <2>2 DEF IInv, SignalInv, Dbm
<1>6. ASSUME NEW i \in 1 .. Len(queue'), queue'[i].what = "listen"
      PROVE  what = "listen" \/ \E k \in 1 .. Len(queue) : queue[k].what = "listen"
  BY <1>1, <1>3, <1>6
<1> QED
  BY <1>3, <1>5, <1>6

-----------------------------------------------------------------------------
\* The activity and the dialog.
LEMMA ActivityPreserves ==
  ASSUME IInv, onCreate \/ \E yes \in BOOLEAN : Answer(yes)
  PROVE  IInv'
<1>1. /\ Post("granted") \/ queue' = queue
      /\ UNCHANGED <<service, teleManager, lastSignal, asu, listeners, sdk, crash>>
  BY DEF onCreate, Answer
<1>2. CASE Post("granted")
  BY <1>1, <1>2, PostKeeps DEF IInv, TypeInv, FieldInv
<1>3. CASE queue' = queue
  BY <1>1, <1>3 DEF IInv, TypeInv, FieldInv, SignalInv, LastSignal, Dbm
<1> QED
  BY <1>1, <1>2, <1>3

\* The calls of the SDK that only ask.
LEMMA AskPreserves ==
  ASSUME IInv, NEW t \in Threads, getDbm(t) \/ \E tested \in BOOLEAN : Ask(t, tested)
  PROVE  IInv'
<1>1. CASE sdk' = sdk
  <2>1. /\ UNCHANGED <<service, teleManager, lastSignal, asu, listeners, queue, sdk>>
        /\ crash' = "none" \/ (crash' = "null" /\ ~teleManager)
             \/ (crash' = "service" /\ teleManager)
    BY <1>1 DEF getDbm, Ask, AskNull, AskService, Replies, Throws, Running
  <2> QED
    BY <2>1 DEF IInv, TypeInv, FieldInv, SignalInv, LastSignal, Dbm
<1>2. CASE \E answer \in Answers \ {"success"} :
             sdk' = [sdk EXCEPT ![t] = Idle(answer)] /\ UNCHANGED crash
  <2>1. PICK answer \in Answers \ {"success"} :
          sdk' = [sdk EXCEPT ![t] = Idle(answer)] /\ UNCHANGED crash
    BY <1>2
  <2>2. UNCHANGED <<service, teleManager, lastSignal, asu, listeners, queue, crash>>
    BY <2>1 DEF getDbm, Ask
  <2>3. /\ sdk' \in [Threads -> Places]
        /\ \A u \in Threads : sdk'[u] = IF u = t THEN Idle(answer) ELSE sdk[u]
    BY <2>1 DEF IInv, TypeInv, Idle, Places
  <2>4. Idle(answer).pc = "idle" /\ Idle(answer).answer # "success"
    BY DEF Idle
  <2> HIDE DEF Idle
  <2> QED
    BY <2>2, <2>3, <2>4 DEF IInv, TypeInv, FieldInv, SignalInv, LastSignal, Dbm
<1> QED
  BY <1>1, <1>2 DEF getDbm, Ask, AskNull, AskService, Replies, Throws, Answers

\* deviceInit stores what it stored before, if it stored something.
LEMMA InitPreserves ==
  ASSUME IInv, NEW t \in Threads, deviceInit(t)
  PROVE  IInv'
<1>1. crash = "none" /\ UNCHANGED <<service, lastSignal, asu, listeners, crash>>
  BY DEF deviceInit, Running
<1>2. CASE StoreService(t)
  <2>1. teleManager' = service /\ queue' = queue
    BY <1>2 DEF StoreService
  <2>2. PICK place \in Places : /\ sdk' = [sdk EXCEPT ![t] = place]
                                /\ place.pc = "post" => service
                                /\ place.answer = "success" => sdk[t].answer = "success"
    <3>1. CASE service
      <4>1. [sdk[t] EXCEPT !.pc = "post"] \in Places /\ [sdk[t] EXCEPT !.pc = "post"].answer = sdk[t].answer
        BY DEF IInv, TypeInv, Places
      <4> QED
        BY <1>2, <3>1, <4>1 DEF StoreService
    <3>2. CASE ~service
      <4>1. Idle("failure") \in Places /\ Idle("failure").pc = "idle" /\ Idle("failure").answer = "failure"
        BY DEF Idle, Places, Answers
      <4> QED
        BY <1>2, <3>2, <4>1 DEF StoreService
    <3> QED
      BY <3>1, <3>2
  <2>3. sdk' \in [Threads -> Places] /\ \A u \in Threads : sdk'[u] = IF u = t THEN place ELSE sdk[u]
    BY <2>2 DEF IInv, TypeInv
  <2> QED
    BY <1>1, <2>1, <2>2, <2>3 DEF IInv, TypeInv, FieldInv, SignalInv, LastSignal, Dbm
<1>3. CASE PostListen(t)
  <2>1. Post("listen") /\ teleManager' = teleManager /\ teleManager
    BY <1>3 DEF PostListen, IInv, FieldInv
  <2>2. /\ sdk' \in [Threads -> Places]
        /\ \A u \in Threads : sdk'[u] = IF u = t THEN Idle("success") ELSE sdk[u]
    BY <1>3 DEF PostListen, IInv, TypeInv, Idle, Places, Answers
  <2> QED
    BY <1>1, <2>1, <2>2, PostKeeps DEF IInv, TypeInv, FieldInv
<1> QED
  BY <1>2, <1>3 DEF deviceInit

\* Every listener is told the new signal, behind all that waits.
LEMMA SignalPreserves ==
  ASSUME IInv, NEW a \in Signals, SignalChanges(a)
  PROVE  IInv'
<1> DEFINE s == [i \in 1 .. listeners |-> Message("signal", a)]
           m == Message("signal", a)
<1>1. /\ m \in Messages /\ m.what = "signal" /\ m.value = a
      /\ listeners \in Nat /\ queue \in Seq(Messages) /\ Len(queue) \in Nat
  BY MessageIs, ModemAssumption DEF IInv, TypeInv
<1>2. s \in Seq(Messages) /\ Len(s) = listeners /\ \A i \in 1 .. listeners : s[i] = m
  <2> HIDE DEF m
  <2>1. s = [i \in 1 .. listeners |-> m]
    BY DEF m
  <2> HIDE DEF s
  <2> QED
    BY <1>1, <2>1
<1>3. queue' = queue \o s /\ asu' = a
      /\ UNCHANGED <<service, teleManager, lastSignal, listeners, sdk, crash>>
  BY DEF SignalChanges
<1> HIDE DEF m, s
<1>4. /\ queue' \in Seq(Messages) /\ Len(queue') = Len(queue) + listeners
      /\ \A i \in 1 .. Len(queue) : queue'[i] = queue[i]
      /\ \A i \in 1 .. listeners : queue'[Len(queue) + i] = m
  <2>1. queue' \in Seq(Messages) /\ Len(queue') = Len(queue) + Len(s)
    BY <1>1, <1>2, <1>3
  <2>2. \A i \in 1 .. Len(queue) + Len(s) :
          queue'[i] = IF i <= Len(queue) THEN queue[i] ELSE s[i - Len(queue)]
    BY <1>1, <1>2, <1>3
  <2>3. ASSUME NEW i \in 1 .. Len(queue) PROVE queue'[i] = queue[i]
    <3>1. i \in 1 .. Len(queue) + Len(s) /\ i <= Len(queue)
      BY <1>1, <1>2
    <3> QED
      BY <2>2, <3>1
  <2>4. ASSUME NEW i \in 1 .. listeners PROVE queue'[Len(queue) + i] = m
    <3>1. /\ Len(queue) + i \in 1 .. Len(queue) + Len(s) /\ ~(Len(queue) + i <= Len(queue))
          /\ (Len(queue) + i) - Len(queue) = i
      BY <1>1, <1>2
    <3> QED
      BY <1>2, <2>2, <3>1
  <2> QED
    BY <1>2, <2>1, <2>3, <2>4
<1>5. \A i \in 1 .. Len(queue') :
        i \in 1 .. Len(queue) \/ (i - Len(queue) \in 1 .. listeners /\ queue'[i] = m)
  <2> SUFFICES ASSUME NEW i \in 1 .. Len(queue'), i \notin 1 .. Len(queue)
               PROVE  i - Len(queue) \in 1 .. listeners /\ queue'[i] = m
    OBVIOUS
  <2>1. i - Len(queue) \in 1 .. listeners /\ Len(queue) + (i - Len(queue)) = i
    BY <1>1, <1>4
  <2> QED
    BY <1>4, <2>1
<1>6. FieldInv'
  BY <1>1, <1>3, <1>4, <1>5 DEF IInv, FieldInv
<1>7. SignalInv'
  <2>1. CASE listeners = 0
    <3>1. Len(queue') = Len(queue)
      BY <1>1, <1>4, <2>1
    <3>2. \A i \in 1 .. Len(queue') : queue'[i].what # "signal"
      BY <1>1, <1>4, <2>1, <3>1 DEF IInv, SignalInv, LastSignal
    <3> QED
      BY <1>3, <2>1, <3>2 DEF IInv, SignalInv, LastSignal
  <2>2. CASE listeners > 0
    <3>1. Len(queue') \in 1 .. Len(queue') /\ queue'[Len(queue')] = m
      <4>1. listeners \in 1 .. listeners
        BY <1>1, <2>2
      <4> QED
        BY <1>1, <1>4, <2>2, <4>1
    <3>2. \A i \in 0 .. Len(queue') : LastSignal(queue', i) => i = Len(queue')
      <4> SUFFICES ASSUME NEW i \in 0 .. Len(queue'), i # Len(queue'), LastSignal(queue', i)
                   PROVE  FALSE
        OBVIOUS
      <4>1. Len(queue') \in i + 1 .. Len(queue')
        BY <1>4, <1>1
      <4> QED
        BY <1>1, <3>1, <4>1 DEF LastSignal
    <3>3. \A i \in 1 .. Len(queue') : i \in 0 .. Len(queue')
      OBVIOUS
    <3>4. \A i \in 1 .. Len(queue') : LastSignal(queue', i) => queue'[i].value = asu'
      BY <1>1, <1>3, <3>1, <3>2, <3>3
    <3>5. ~LastSignal(queue', 0)
      BY <1>1, <1>4, <2>2, <3>2
    <3> QED
      BY <1>3, <2>2, <3>4, <3>5 DEF SignalInv
  <2> QED
    BY <1>1, <2>1, <2>2
<1> QED
  BY <1>3, <1>4, <1>6, <1>7 DEF IInv, TypeInv

\* The main thread handles a message.
LEMMA HandlePreserves ==
  ASSUME IInv, Handle
  PROVE  IInv'
<1> DEFINE n == Len(queue)
<1>1. /\ queue \in Seq(Messages) /\ queue # << >> /\ n \in Nat /\ n > 0 /\ crash = "none"
      /\ listeners \in Nat
      /\ UNCHANGED <<service, teleManager, asu, sdk>>
  BY DEF IInv, TypeInv, Handle, Running
<1>2. /\ Tail(queue) \in Seq(Messages) /\ Len(Tail(queue)) = n - 1
      /\ \A i \in 1 .. n - 1 : Tail(queue)[i] = queue[i + 1]
  BY <1>1
<1>3. \A i \in 0 .. n - 1 : LastSignal(Tail(queue), i) <=> LastSignal(queue, i + 1)
  <2> SUFFICES ASSUME NEW i \in 0 .. n - 1
               PROVE  LastSignal(Tail(queue), i) <=> LastSignal(queue, i + 1)
    OBVIOUS
  <2>1. ASSUME LastSignal(Tail(queue), i), NEW j \in (i + 1) + 1 .. n
        PROVE  queue[j].what # "signal"
    <3>1. j - 1 \in i + 1 .. Len(Tail(queue)) /\ j - 1 \in 1 .. n - 1 /\ (j - 1) + 1 = j
      BY <1>1, <1>2
    <3> QED
      BY <1>2, <2>1, <3>1 DEF LastSignal
  <2>2. ASSUME LastSignal(queue, i + 1), NEW j \in i + 1 .. Len(Tail(queue))
        PROVE  Tail(queue)[j].what # "signal"
    <3>1. j + 1 \in (i + 1) + 1 .. n /\ j \in 1 .. n - 1
      BY <1>1, <1>2
    <3> QED
      BY <1>2, <2>2, <3>1 DEF LastSignal
  <2> QED
    BY <2>1, <2>2 DEF LastSignal
<1>4. \A i \in 1 .. n - 1 : Tail(queue)[i].what = "signal" /\ LastSignal(Tail(queue), i)
                             => Tail(queue)[i].value = asu
  <2> SUFFICES ASSUME NEW i \in 1 .. n - 1, Tail(queue)[i].what = "signal",
                      LastSignal(Tail(queue), i)
               PROVE  Tail(queue)[i].value = asu
    OBVIOUS
  <2>1. i + 1 \in 1 .. n /\ i \in 0 .. n - 1
    BY <1>1
  <2> QED
    BY <1>2, <1>3, <2>1 DEF IInv, SignalInv
<1>5. \A i \in 1 .. n - 1 : Tail(queue)[i].what = "listen" => teleManager
  <2> SUFFICES ASSUME NEW i \in 1 .. n - 1, Tail(queue)[i].what = "listen" PROVE teleManager
    OBVIOUS
  <2>1. i + 1 \in 1 .. n
    BY <1>1
  <2> QED
    BY <1>2, <2>1 DEF IInv, FieldInv
<1>6. LastSignal(queue, 0) <=> queue[1].what # "signal" /\ LastSignal(queue, 1)
  BY <1>1 DEF LastSignal
<1>7. 0 \in 0 .. n - 1 /\ 1 \in 1 .. n
  BY <1>1
\* onGranted.
<1>8. CASE queue[1].what = "granted"
  <2>1. queue' = Tail(queue) /\ UNCHANGED <<lastSignal, listeners>>
        /\ crash' \in (IF teleManager THEN {"none", "service"} ELSE {"granted"})
    BY <1>8 DEF Handle
  <2>2. LastSignal(queue, 0) <=> LastSignal(queue', 0)
    BY <1>3, <1>6, <1>7, <1>8, <2>1
  <2>3. SignalInv'
    BY <1>1, <1>2, <1>4, <2>1, <2>2 DEF IInv, SignalInv, Dbm
  <2>4. FieldInv'
    BY <1>1, <1>2, <1>5, <2>1 DEF IInv, FieldInv
  <2> QED
    BY <1>1, <1>2, <2>1, <2>3, <2>4 DEF IInv, TypeInv
\* The posted listen(): the field is set.
<1>9. CASE queue[1].what = "listen"
  <2> DEFINE m == Message("signal", asu)
  <2>1. teleManager
    BY <1>7, <1>9 DEF IInv, FieldInv
  <2>2. queue' = Append(Tail(queue), m) /\ listeners' = listeners + 1
        /\ UNCHANGED <<crash, lastSignal>>
    BY <1>9, <2>1 DEF Handle
  <2>3. m \in Messages /\ m.what = "signal" /\ m.value = asu
    BY MessageIs, ModemAssumption DEF IInv, TypeInv
  <2> HIDE DEF m
  <2>4. /\ queue' \in Seq(Messages) /\ Len(queue') = n /\ queue'[n] = m
        /\ \A i \in 1 .. n - 1 : queue'[i] = Tail(queue)[i]
    BY <1>1, <1>2, <2>2, <2>3
  <2>5. \A i \in 0 .. n - 1 : ~LastSignal(queue', i)
    <3> SUFFICES ASSUME NEW i \in 0 .. n - 1, LastSignal(queue', i) PROVE FALSE
      OBVIOUS
    <3>1. n \in i + 1 .. Len(queue')
      BY <1>1, <2>4
    <3> QED
      BY <2>3, <2>4, <3>1 DEF LastSignal
  <2>6. SignalInv'
    <3>1. \A i \in 1 .. n : LastSignal(queue', i) => i = n
      BY <1>1, <2>5
    <3>2. listeners' > 0 /\ listeners' # 0 /\ ~LastSignal(queue', 0)
      BY <1>1, <1>7, <2>2, <2>5
    <3> QED
      BY <1>1, <2>3, <2>4, <3>1, <3>2 DEF SignalInv
  <2>7. FieldInv'
    BY <1>1, <2>1, <2>2 DEF IInv, FieldInv
  <2> QED
    BY <1>1, <2>2, <2>4, <2>6, <2>7 DEF IInv, TypeInv
\* A listener.
<1>10. CASE queue[1].what = "signal"
  <2>1. queue' = Tail(queue) /\ lastSignal' = Dbm(queue[1].value) /\ UNCHANGED <<listeners, crash>>
    BY <1>10 DEF Handle
  <2>2. listeners # 0
    BY <1>6, <1>10 DEF IInv, SignalInv
  <2>3. LastSignal(queue', 0) => queue[1].value = asu
    BY <1>3, <1>7, <1>10, <2>1 DEF IInv, SignalInv
  <2>4. SignalInv'
    BY <1>1, <1>2, <1>4, <2>1, <2>2, <2>3 DEF SignalInv, Dbm
  <2>5. FieldInv'
    BY <1>1, <1>2, <1>5, <2>1 DEF IInv, FieldInv
  <2> QED
    BY <1>1, <1>2, <2>1, <2>4, <2>5 DEF IInv, TypeInv
<1> QED
  BY <1>8, <1>9, <1>10 DEF Handle

\* Every step keeps the invariant.
LEMMA NextIInv ==
  ASSUME IInv, [Next]_vars
  PROVE  IInv'
<1>1. CASE Next
  BY <1>1, ActivityPreserves, AskPreserves, InitPreserves, SignalPreserves, HandlePreserves DEF Next
<1>2. CASE UNCHANGED vars
  BY <1>2 DEF vars, IInv, TypeInv, FieldInv, SignalInv, LastSignal, Dbm
<1> QED
  BY <1>1, <1>2

-----------------------------------------------------------------------------
\* A null field ends the process only before a deviceInit has stored the service;
\* with no signal on its way the stored one is the present one.
THEOREM ModemAlwaysConsistent == Spec => []ModemConsistent
<1>1. IInv => ModemConsistent
  <2> SUFFICES ASSUME IInv PROVE ModemConsistent
    OBVIOUS
  <2>1. ~(\E i \in DOMAIN queue : queue[i].what = "signal") => LastSignal(queue, 0)
    BY DEF IInv, TypeInv, LastSignal
  <2> QED
    BY <2>1 DEF IInv, FieldInv, SignalInv, ModemConsistent
<1>2. Init => IInv
  BY InitIInv
<1>3. IInv /\ [Next]_vars => IInv'
  BY NextIInv
<1> QED
  BY <1>1, <1>2, <1>3, PTL DEF Spec
=============================================================================
