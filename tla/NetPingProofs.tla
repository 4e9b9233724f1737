---------------------------- MODULE NetPingProofs ----------------------------
(* The type invariant and the safety properties of NetPing, for every set of *)
(* samples and addresses and any number of calls.                            *)
EXTENDS NetPing, TLAPS

-----------------------------------------------------------------------------
\* The mean.

\* The loop that adds the samples up reaches their sum.
LEMMA TimeIs ==
  ASSUME rtt \in [1 .. CONN_TIMES -> Int]
  PROVE  Time[CONN_TIMES] = (IF rtt[1] > 0 THEN rtt[1] ELSE 0) + (IF rtt[2] > 0 THEN rtt[2] ELSE 0)
                          + (IF rtt[3] > 0 THEN rtt[3] ELSE 0) + (IF rtt[4] > 0 THEN rtt[4] ELSE 0)
<1> DEFINE X(k) == IF rtt[k] > 0 THEN rtt[k] ELSE 0
           g == [k \in 0 .. 4 |-> IF k = 0 THEN 0 ELSE IF k = 1 THEN X(1)
                  ELSE IF k = 2 THEN X(1) + X(2) ELSE IF k = 3 THEN X(1) + X(2) + X(3)
                  ELSE X(1) + X(2) + X(3) + X(4)]
           Def(f) == f = [k \in 0 .. 4 |-> IF k = 0 THEN 0 ELSE f[k - 1] + X(k)]
<1>1. \A k \in 1 .. 4 : X(k) \in Int
  BY DEF CONN_TIMES
<1>2. Def(g)
  <2> HIDE DEF X
  <2>1. \A k \in 0 .. 4 : g[k] = IF k = 0 THEN 0 ELSE g[k - 1] + X(k)
    BY <1>1
  <2> QED
    BY <2>1
<1>3. Time = CHOOSE f : Def(f)
  BY DEF Time, CONN_TIMES
<1>4. Def(Time)
  <2> HIDE DEF Def, g
  <2> QED
    BY <1>2, <1>3
<1>5. \A k \in 0 .. 4 : Time[k] = IF k = 0 THEN 0 ELSE Time[k - 1] + X(k)
  <2> HIDE DEF X
  <2> QED
    BY <1>4, Zenon
<1>6. /\ Time[0] = 0 /\ Time[1] = Time[0] + X(1) /\ Time[2] = Time[1] + X(2)
      /\ Time[3] = Time[2] + X(3) /\ Time[4] = Time[3] + X(4)
  <2> HIDE DEF X
  <2> QED
    BY <1>5
<1>7. /\ X(1) \in Int /\ X(2) \in Int /\ X(3) \in Int /\ X(4) \in Int
  BY <1>1
<1>8. Time[4] = X(1) + X(2) + X(3) + X(4)
  <2> HIDE DEF X
  <2> QED
    BY <1>6, <1>7
<1> QED
  BY <1>8 DEF CONN_TIMES

\* And the one that counts them their number.
LEMMA CountIs ==
  ASSUME rtt \in [1 .. CONN_TIMES -> Int]
  PROVE  Count[CONN_TIMES] = (IF rtt[1] > 0 THEN 1 ELSE 0) + (IF rtt[2] > 0 THEN 1 ELSE 0)
                          + (IF rtt[3] > 0 THEN 1 ELSE 0) + (IF rtt[4] > 0 THEN 1 ELSE 0)
<1> DEFINE X(k) == IF rtt[k] > 0 THEN 1 ELSE 0
           g == [k \in 0 .. 4 |-> IF k = 0 THEN 0 ELSE IF k = 1 THEN X(1)
                  ELSE IF k = 2 THEN X(1) + X(2) ELSE IF k = 3 THEN X(1) + X(2) + X(3)
                  ELSE X(1) + X(2) + X(3) + X(4)]
           Def(f) == f = [k \in 0 .. 4 |-> IF k = 0 THEN 0 ELSE f[k - 1] + X(k)]
<1>1. \A k \in 1 .. 4 : X(k) \in Int
  BY DEF CONN_TIMES
<1>2. Def(g)
  <2> HIDE DEF X
  <2>1. \A k \in 0 .. 4 : g[k] = IF k = 0 THEN 0 ELSE g[k - 1] + X(k)
    BY <1>1
  <2> QED
    BY <2>1
<1>3. Count = CHOOSE f : Def(f)
  BY DEF Count, CONN_TIMES
<1>4. Def(Count)
  <2> HIDE DEF Def, g
  <2> QED
    BY <1>2, <1>3
<1>5. \A k \in 0 .. 4 : Count[k] = IF k = 0 THEN 0 ELSE Count[k - 1] + X(k)
  <2> HIDE DEF X
  <2> QED
    BY <1>4, Zenon
<1>6. /\ Count[0] = 0 /\ Count[1] = Count[0] + X(1) /\ Count[2] = Count[1] + X(2)
      /\ Count[3] = Count[2] + X(3) /\ Count[4] = Count[3] + X(4)
  <2> HIDE DEF X
  <2> QED
    BY <1>5
<1>7. /\ X(1) \in Int /\ X(2) \in Int /\ X(3) \in Int /\ X(4) \in Int
  BY <1>1
<1>8. Count[4] = X(1) + X(2) + X(3) + X(4)
  <2> HIDE DEF X
  <2> QED
    BY <1>6, <1>7
<1> QED
  BY <1>8 DEF CONN_TIMES

\* The mean lies between the samples it is the mean of.
LEMMA MeanIs ==
  ASSUME rtt \in [1 .. CONN_TIMES -> Int]
  PROVE  /\ Mean \in Nat
         /\ Count[CONN_TIMES] > 0 <=> Measured # {}
         /\ Measured = {} => Mean = 0
         /\ Measured # {} => /\ \E k \in Measured : rtt[k] <= Mean
                            /\ \E k \in Measured : rtt[k] >= Mean
<1> DEFINE t == Time[CONN_TIMES]
           c == Count[CONN_TIMES]
           x(k) == IF rtt[k] > 0 THEN rtt[k] ELSE 0
           w(k) == IF rtt[k] > 0 THEN 1 ELSE 0
<1>1. /\ rtt[1] \in Int /\ rtt[2] \in Int /\ rtt[3] \in Int /\ rtt[4] \in Int
  BY DEF CONN_TIMES
<1>a. t = x(1) + x(2) + x(3) + x(4) /\ c = w(1) + w(2) + w(3) + w(4)
  BY TimeIs, CountIs
<1>b. \A k \in 1 .. 4 : x(k) \in Nat /\ w(k) \in {0, 1}
  BY <1>1
<1>2. c \in 0 .. 4 /\ t \in Nat
  <2> HIDE DEF x, w, c, t
  <2>1. /\ x(1) \in Nat /\ x(2) \in Nat /\ x(3) \in Nat /\ x(4) \in Nat
        /\ w(1) \in {0, 1} /\ w(2) \in {0, 1} /\ w(3) \in {0, 1} /\ w(4) \in {0, 1}
    BY <1>b
  <2> QED
    BY <1>a, <2>1
<1>3. \A k \in 1 .. 4 : k \in Measured <=> rtt[k] > 0
  BY DEF Measured, CONN_TIMES
<1>4. Measured \subseteq 1 .. 4
  BY DEF Measured, CONN_TIMES
<1>5. c > 0 <=> Measured # {}
  <2>1. \A k \in 1 .. 4 : k \in Measured <=> w(k) = 1
    BY <1>1, <1>3
  <2>2. Measured # {} <=> \E k \in 1 .. 4 : w(k) = 1
    <3> HIDE DEF w
    <3> QED
      BY <1>4, <2>1
  <2>3. (\E k \in 1 .. 4 : w(k) = 1) <=> w(1) = 1 \/ w(2) = 1 \/ w(3) = 1 \/ w(4) = 1
    <3> HIDE DEF w
    <3> QED
      OBVIOUS
  <2>4. /\ w(1) \in {0, 1} /\ w(2) \in {0, 1} /\ w(3) \in {0, 1} /\ w(4) \in {0, 1}
    BY <1>1
  <2> HIDE DEF w, c
  <2> QED
    BY <1>a, <2>2, <2>3, <2>4
<1>6. ASSUME c = 0 PROVE Mean = 0
  BY <1>6 DEF Mean
<1>7. ASSUME c > 0
      PROVE  /\ Mean \in Nat
             /\ c * Mean <= t /\ t < c * Mean + c
  <2> HIDE DEF c, t, x, w
  <2>1. Mean = t \div c
    BY <1>2, <1>7 DEF Mean, c, t
  <2>2. CASE c = 1
    BY <1>2, <2>1, <2>2
  <2>3. CASE c = 2
    BY <1>2, <2>1, <2>3
  <2>4. CASE c = 3
    BY <1>2, <2>1, <2>4
  <2>5. CASE c = 4
    BY <1>2, <2>1, <2>5
  <2> QED
    BY <1>2, <1>7, <2>2, <2>3, <2>4, <2>5
<1>8. ASSUME c > 0, \A k \in Measured : rtt[k] > Mean PROVE FALSE
  <2>1. Mean \in Nat
    BY <1>7, <1>8
  <2>2. \A k \in 1 .. 4 : rtt[k] > 0 => rtt[k] >= Mean + 1
    BY <1>1, <1>3, <1>8, <2>1
  <2>3. \A k \in 1 .. 4 : (w(k) = 0 /\ x(k) = 0) \/ (w(k) = 1 /\ x(k) >= Mean + 1)
    BY <1>1, <2>1, <2>2
  <2>4. t >= c * Mean + c
    <3> HIDE DEF x, w, c, t
    <3>1. c \in 1 .. 4
      BY <1>2, <1>8
    <3>2. \A k \in {1, 2, 3, 4} :
            \/ w(k) = 0 /\ x(k) = 0
            \/ w(k) = 1 /\ x(k) \in Nat /\ x(k) >= Mean + 1
      BY <1>b, <2>3
    <3>3. CASE c = 1
      BY <1>a, <2>1, <3>2, <3>3
    <3>4. CASE c = 2
      BY <1>a, <2>1, <3>2, <3>4
    <3>5. CASE c = 3
      BY <1>a, <2>1, <3>2, <3>5
    <3>6. CASE c = 4
      BY <1>a, <2>1, <3>2, <3>6
    <3> QED
      BY <3>1, <3>3, <3>4, <3>5, <3>6
  <2> HIDE DEF c, t, x, w
  <2> QED
    BY <1>2, <1>7, <1>8, <2>1, <2>4
<1>9. ASSUME c > 0, \A k \in Measured : rtt[k] < Mean PROVE FALSE
  <2>1. Mean \in Nat
    BY <1>7, <1>9
  <2>2. \A k \in 1 .. 4 : rtt[k] > 0 => rtt[k] <= Mean - 1
    BY <1>1, <1>3, <1>9, <2>1
  <2>3. \A k \in 1 .. 4 : (w(k) = 0 /\ x(k) = 0) \/ (w(k) = 1 /\ x(k) <= Mean - 1)
    BY <1>1, <2>1, <2>2
  <2>4. t <= c * Mean - c
    <3> HIDE DEF x, w, c, t
    <3>1. c \in 1 .. 4
      BY <1>2, <1>9
    <3>2. \A k \in {1, 2, 3, 4} :
            \/ w(k) = 0 /\ x(k) = 0
            \/ w(k) = 1 /\ x(k) \in Nat /\ x(k) <= Mean - 1
      BY <1>b, <2>3
    <3>3. CASE c = 1
      BY <1>a, <2>1, <3>2, <3>3
    <3>4. CASE c = 2
      BY <1>a, <2>1, <3>2, <3>4
    <3>5. CASE c = 3
      BY <1>a, <2>1, <3>2, <3>5
    <3>6. CASE c = 4
      BY <1>a, <2>1, <3>2, <3>6
    <3> QED
      BY <3>1, <3>3, <3>4, <3>5, <3>6
  <2> HIDE DEF c, t, x, w
  <2> QED
    BY <1>2, <1>7, <1>9, <2>1, <2>4
<1>10. \A k \in Measured : rtt[k] \in Int
  BY DEF Measured
<1> HIDE DEF c, t, x, w
<1> QED
  BY <1>2, <1>5, <1>6, <1>7, <1>8, <1>9, <1>10 DEF c

-----------------------------------------------------------------------------
\* release() runs its statements in their order.
LEMMA RelOrder ==
  /\ RelNext("manager") = "messages" /\ RelNext("messages") = "quit"
  /\ RelNext("quit") = "thread"      /\ RelNext("thread") = "listener"
  /\ RelNext("listener") = "clear"   /\ RelNext("clear") = "null"
  /\ RelNext("null") = "done"
<1> DEFINE I(s) == CHOOSE k \in 1 .. 8 : RelSteps[k] = s
<1>1. \A s \in {RelSteps[k] : k \in 2 .. 8} : I(s) \in 1 .. 8 /\ RelSteps[I(s)] = s
  BY DEF RelSteps
<1>2. \A s : RelNext(s) = RelSteps[1 + I(s)]
  <2>1. Len(RelSteps) - 1 = 8
    BY DEF RelSteps
  <2> QED
    BY <2>1, Zenon DEF RelNext
<1>3. /\ I("manager") = 2 /\ I("messages") = 3 /\ I("quit") = 4 /\ I("thread") = 5
      /\ I("listener") = 6 /\ I("clear") = 7 /\ I("null") = 8
  <2> HIDE DEF I
  <2> QED
    BY <1>1 DEF RelSteps
<1> HIDE DEF I
<1> QED
  BY <1>2, <1>3 DEF RelSteps

RelPlaces == {"no", "manager", "messages", "quit", "thread", "listener", "clear", "null", "done"}

LEMMA RelPlacesAre == {RelSteps[k] : k \in 1 .. Len(RelSteps)} = RelPlaces
BY DEF RelSteps, RelPlaces

-----------------------------------------------------------------------------
\* The parts of the inductive invariant.

\* A diagnosis finds the list empty when it adds an address, and has connected
\* as often as taken says.
DiagnosisInv ==
  /\ pc \in {"net", "info", "error", "resolve", "slow", "add"} => list \in {Null, 0}
  /\ pc \in {"clear", "net", "info", "error", "resolve", "slow", "add", "exec", "first"}
       => taken = 0
  /\ pc = "connect" => taken < CONN_TIMES
  /\ pc \in {"mean", "report"} => taken = CONN_TIMES

\* There are no more messages than calls; without a handler thread there is none.
ChainInv ==
  /\ Chains <= calls
  /\ ~async => due = 0 /\ delayed = 0 /\ pc # "send"
  /\ quit => rel \in {"thread", "listener", "clear", "null", "done"}

\* The fields, by how far release() has come: untouched before it.
FieldInv ==
  /\ rel = "no" =>
       /\ list # Null /\ listener = async /\ hthread = async /\ pc # "died"
       /\ pc = "info" => manager
       /\ pc \in {"error", "report"} => listener
       /\ pc = "exec" /\ addrs > 1 => list = 1
       /\ pc = "first" => list = 1
  /\ rel \notin {"no", "manager"} => ~manager
  /\ rel \in {"listener", "clear", "null", "done"} => ~hthread
  /\ rel \in {"clear", "null", "done"} => ~listener
  /\ rel = "done" => list = Null
  /\ ~async => \/ rel = "no"
               \/ pc = "idle"
               \/ rel = "done" /\ pc \in {"net", "again"}
  /\ late => async /\ rel = "done" /\ pc \in {"idle", "net", "again"}

\* The last two samples, where the connects go on and where they are over.
SampleInv ==
  /\ pc = "connect" /\ taken > 0 => ~StopsAt(taken, rtt)
  /\ pc \in {"mean", "report"} => ~StopsAt(taken, rtt)
  /\ pc = "again" /\ taken > 0 => (result = -1 <=> StopsAt(taken, rtt))
  /\ pc = "again" /\ taken = 0 => result = -1
  /\ pc = "report" => result >= 0
  /\ pc = "report" \/ (pc = "again" /\ result >= 0) =>
       /\ taken = CONN_TIMES
       /\ IF Measured = {} THEN result = 0
          ELSE /\ \E k \in Measured : rtt[k] <= result
               /\ \E k \in Measured : rtt[k] >= result

IInv == TypeOK /\ DiagnosisInv /\ ChainInv /\ FieldInv /\ SampleInv

-----------------------------------------------------------------------------
LEMMA InitIInv == Init => IInv
<1> SUFFICES ASSUME Init PROVE IInv
  OBVIOUS
<1> USE DEF Init
<1>1. TypeOK
  <2>1. {async, manager, listener, hthread, quit, late} \subseteq BOOLEAN
    OBVIOUS
  <2>2. rtt \in [1 .. CONN_TIMES -> Samples \cup {0}]
    OBVIOUS
  <2>3. rel \in {RelSteps[k] : k \in 1 .. Len(RelSteps)}
    BY RelPlacesAre DEF RelPlaces
  <2>4. /\ list \in Null .. 1 /\ addrs \in Addresses \cup {0}
        /\ due \in 0 .. MaxCalls /\ delayed \in 0 .. MaxCalls
        /\ pc \in PCs /\ taken \in 0 .. CONN_TIMES /\ result \in Int /\ calls \in 0 .. MaxCalls
    BY PingAssumption DEF PCs, CONN_TIMES, Null
  <2> QED
    BY <2>1, <2>2, <2>3, <2>4 DEF TypeOK
<1>2. DiagnosisInv /\ ChainInv /\ FieldInv /\ SampleInv
  BY PingAssumption DEF DiagnosisInv, ChainInv, Chains, FieldInv, SampleInv, Null
<1> QED
  BY <1>1, <1>2 DEF IInv

\* Steps of the owner and of the looper, but for release().
LEMMA OwnerPreserves ==
  ASSUME IInv, getDelay \/ getDelay2 \/ beginRelease \/ messageDue \/ handleMessage
  PROVE  IInv'
<1> USE DEF IInv, fields, queue, owner, ping, Goto, OwnerFree
<1>1. TypeOK'
  <2> USE DEF getDelay, getDelay2, beginRelease, messageDue, handleMessage
  <2>1. {async, manager, listener, hthread, quit, late}' \subseteq BOOLEAN
    BY DEF TypeOK
  <2>2. rel' \in {RelSteps[k] : k \in 1 .. Len(RelSteps)}
    BY RelPlacesAre DEF TypeOK, RelPlaces
  <2>3. due' \in 0 .. MaxCalls /\ delayed' \in 0 .. MaxCalls /\ calls' \in 0 .. MaxCalls
    BY PingAssumption DEF TypeOK, ChainInv, Chains
  <2>4. /\ list' \in Null .. 1 /\ addrs' \in Addresses \cup {0}
        /\ rtt' \in [1 .. CONN_TIMES -> Samples \cup {0}]
        /\ taken' \in 0 .. CONN_TIMES /\ result' \in Int
    BY DEF TypeOK, CONN_TIMES
  <2>5. pc' \in PCs
    BY DEF TypeOK, PCs
  <2> QED
    BY <2>1, <2>2, <2>3, <2>4, <2>5 DEF TypeOK
<1>2. DiagnosisInv'
  BY DEF DiagnosisInv, TypeOK, Null, getDelay, getDelay2, beginRelease, messageDue, handleMessage
<1>3. ChainInv'
  BY DEF ChainInv, Chains, TypeOK, getDelay, getDelay2, beginRelease, messageDue, handleMessage
<1>4. FieldInv'
  BY DEF FieldInv, TypeOK, getDelay, getDelay2, beginRelease, messageDue, handleMessage
<1>5. SampleInv'
  BY DEF SampleInv, Measured, StopsAt, TypeOK, getDelay, getDelay2, beginRelease, messageDue, handleMessage
<1> QED
  BY <1>1, <1>2, <1>3, <1>4, <1>5

\* A statement of release().
LEMMA ReleasePreserves ==
  ASSUME IInv, release
  PROVE  IInv'
<1> USE DEF IInv, ping
<1>1. rel' \in RelPlaces \ {"no", "manager"}
  BY RelOrder, RelPlacesAre DEF release, TypeOK, RelPlaces
<1>2. TypeOK'
  <2>1. rel' \in {RelSteps[k] : k \in 1 .. Len(RelSteps)}
    BY <1>1, RelPlacesAre
  <2>2. {async, manager, listener, hthread, quit, late}' \subseteq BOOLEAN
    BY DEF release, TypeOK
  <2> HIDE <1>1
  <2> QED
    BY <2>1, <2>2, PingAssumption DEF TypeOK, release, Null
<1>3. DiagnosisInv'
  BY DEF DiagnosisInv, TypeOK, release, Null
<1>4. ChainInv'
  BY RelOrder, RelPlacesAre DEF ChainInv, Chains, TypeOK, RelPlaces, release
<1>5. FieldInv'
  BY RelOrder, RelPlacesAre, <1>1 DEF FieldInv, TypeOK, RelPlaces, release
<1>6. SampleInv'
  BY DEF SampleInv, Measured, StopsAt, release
<1> QED
  BY <1>2, <1>3, <1>4, <1>5, <1>6

-----------------------------------------------------------------------------
\* Samples are integers.
LEMMA RttInt == TypeOK => rtt \in [1 .. CONN_TIMES -> Int]
<1>1. Samples \cup {0} \subseteq Int
  BY PingAssumption
<1> DEFINE S == Samples \cup {0}
<1> HIDE DEF S
<1>2. rtt \in [1 .. CONN_TIMES -> S] /\ S \subseteq Int => rtt \in [1 .. CONN_TIMES -> Int]
  OBVIOUS
<1> QED
  BY <1>1, <1>2 DEF TypeOK, S

\* A step of a diagnosis that keeps the samples and the messages.
LEMMA StepTypes ==
  ASSUME IInv, UNCHANGED <<async, manager, listener, hthread, rtt, queue, taken, late, owner>>,
         list' \in Null .. 1, addrs' \in Addresses \cup {0}, pc' \in PCs, result' \in Int
  PROVE  TypeOK'
BY DEF IInv, TypeOK, queue, owner

\* The diagnosis up to the address it connects to.
LEMMA LookupPreserves ==
  ASSUME IInv,
         \/ clearList \/ isNetworkConnected \/ getActiveNetworkInfo \/ onError
         \/ parseDomain \/ addAddress \/ execUseJava \/ firstAddress
  PROVE  IInv'
<1> USE DEF IInv, fields, queue, owner, ping, Goto, Return, Die, NotConnected
<1>1. TypeOK'
  <2>1. UNCHANGED <<async, manager, listener, hthread, rtt, queue, taken, late, owner>>
    BY DEF clearList, isNetworkConnected, getActiveNetworkInfo, onError,
       parseDomain, addAddress, execUseJava, firstAddress
  <2>2. list' \in Null .. 1 /\ addrs' \in Addresses \cup {0} /\ pc' \in PCs /\ result' \in Int
    BY DEF TypeOK, DiagnosisInv, PCs, Null, clearList, isNetworkConnected, getActiveNetworkInfo,
       onError, parseDomain, addAddress, execUseJava, firstAddress
  <2> QED
    BY <2>1, <2>2, StepTypes
<1>2. DiagnosisInv'
  BY DEF DiagnosisInv, TypeOK, Null, CONN_TIMES, clearList, isNetworkConnected, getActiveNetworkInfo,
     onError, parseDomain, addAddress, execUseJava, firstAddress
<1>3. ChainInv'
  <2>1. pc \notin {"idle", "died"} /\ pc' # "send" /\ UNCHANGED <<queue, owner, async>>
    BY DEF clearList, isNetworkConnected, getActiveNetworkInfo, onError, parseDomain,
       addAddress, execUseJava, firstAddress
  <2>2. due + delayed + (IF ~async THEN 0 ELSE 1) <= calls
    BY <2>1 DEF ChainInv, Chains
  <2>3. due \in Nat /\ delayed \in Nat /\ calls \in Nat
    BY PingAssumption DEF TypeOK
  <2> QED
    BY <2>1, <2>2, <2>3 DEF ChainInv, Chains
<1>4. FieldInv'
  BY PingAssumption DEF FieldInv, DiagnosisInv, TypeOK, Null, clearList, isNetworkConnected,
     getActiveNetworkInfo, onError, parseDomain, addAddress, execUseJava, firstAddress
<1>5. SampleInv'
  BY DEF SampleInv, DiagnosisInv, TypeOK, clearList, isNetworkConnected, getActiveNetworkInfo,
     onError, parseDomain, addAddress, execUseJava, firstAddress
<1> QED
  BY <1>1, <1>2, <1>3, <1>4, <1>5

\* A connect.
LEMMA ConnectPreserves ==
  ASSUME IInv, execSocket
  PROVE  IInv'
<1> USE DEF IInv, fields, queue, owner, Goto, Return
<1>1. PICK s \in Samples : rtt' = [rtt EXCEPT ![taken'] = s]
  BY DEF execSocket
<1>2. taken' \in 1 .. CONN_TIMES /\ taken' = taken + 1 /\ pc = "connect"
  BY DEF execSocket, DiagnosisInv, TypeOK, CONN_TIMES
<1>3. rtt' \in [1 .. CONN_TIMES -> Samples \cup {0}]
  BY <1>1, <1>2 DEF TypeOK
<1>4. TypeOK'
  BY <1>2, <1>3 DEF TypeOK, execSocket, PCs, CONN_TIMES
<1>5. DiagnosisInv'
  BY <1>2 DEF DiagnosisInv, execSocket, CONN_TIMES
<1>6. ChainInv'
  BY DEF ChainInv, Chains, TypeOK, execSocket
<1>7. FieldInv'
  BY DEF FieldInv, TypeOK, execSocket
<1>8. SampleInv'
  <2>1. CASE StopsAt(taken', rtt') /\ result' = -1 /\ pc' = "again"
    BY <1>2, <2>1 DEF SampleInv
  <2>2. CASE ~StopsAt(taken', rtt') /\ pc' \in {"mean", "connect"}
    BY <2>2 DEF SampleInv
  <2> QED
    BY <2>1, <2>2 DEF execSocket
<1> QED
  BY <1>4, <1>5, <1>6, <1>7, <1>8

\* The end of a diagnosis.
LEMMA EndPreserves ==
  ASSUME IInv, execIP \/ ontDelay \/ reschedule \/ sendDelayed
  PROVE  IInv'
<1> USE DEF IInv, fields, queue, owner, ping, Goto, Die
<1>1. rtt \in [1 .. CONN_TIMES -> Int]
  BY RttInt
<1>2. TypeOK'
  <2>1. CASE execIP
    <3>1. result' \in Int
      BY <1>1, <2>1, MeanIs DEF execIP
    <3>2. list' \in Null .. 1 /\ addrs' \in Addresses \cup {0} /\ pc' \in PCs
      BY <2>1 DEF execIP, TypeOK, PCs
    <3> QED
      BY <2>1, <3>1, <3>2, StepTypes DEF execIP
  <2>2. CASE ontDelay \/ reschedule
    BY <2>2, StepTypes DEF ontDelay, reschedule, TypeOK, PCs
  <2>3. CASE sendDelayed
    <3>1. delayed' \in 0 .. MaxCalls
      BY <2>3, PingAssumption DEF sendDelayed, TypeOK, ChainInv, Chains
    <3> QED
      BY <2>3, <3>1 DEF sendDelayed, TypeOK, PCs
  <2> QED
    BY <2>1, <2>2, <2>3
<1>3. DiagnosisInv'
  BY DEF DiagnosisInv, execIP, ontDelay, reschedule, sendDelayed
<1>4. ChainInv'
  BY DEF ChainInv, Chains, TypeOK, execIP, ontDelay, reschedule, sendDelayed
<1>5. FieldInv'
  BY DEF FieldInv, TypeOK, execIP, ontDelay, reschedule, sendDelayed
<1>6. SampleInv'
  <2>1. CASE execIP
    <3>1. /\ taken' = CONN_TIMES /\ ~StopsAt(taken', rtt')
          /\ result' = Mean /\ Measured' = Measured /\ UNCHANGED rtt /\ pc' \in {"report", "again"}
      BY <2>1 DEF execIP, SampleInv, DiagnosisInv, Measured
    <3>2. CONN_TIMES # 0 /\ Mean # -1 /\ Mean >= 0
      BY <1>1, MeanIs DEF CONN_TIMES
    <3>3. IF Measured = {} THEN Mean = 0
          ELSE (\E k \in Measured : rtt[k] <= Mean) /\ (\E k \in Measured : rtt[k] >= Mean)
      BY <1>1, MeanIs
    <3>4. IF Measured' = {} THEN result' = 0
          ELSE /\ \E k \in Measured' : rtt'[k] <= result'
               /\ \E k \in Measured' : rtt'[k] >= result'
      BY <3>1, <3>3
    <3>5. taken' > 0 /\ taken' # 0 /\ result' >= 0 /\ result' # -1
      BY <3>1, <3>2 DEF CONN_TIMES
    <3> HIDE DEF IInv
    <3> QED
      BY <3>1, <3>4, <3>5 DEF SampleInv
  <2>2. CASE ontDelay
    <3>1. pc = "report" /\ pc' \in {"again", "died"} /\ UNCHANGED <<rtt, taken, result>>
      BY <2>2 DEF ontDelay
    <3>2. Measured' = Measured
      BY <3>1 DEF Measured
    <3>3. /\ ~StopsAt(taken, rtt) /\ result >= 0 /\ taken = CONN_TIMES
          /\ IF Measured = {} THEN result = 0
             ELSE /\ \E k \in Measured : rtt[k] <= result
                  /\ \E k \in Measured : rtt[k] >= result
      BY <3>1 DEF SampleInv
    <3>4. result # -1 /\ taken # 0
      <4> HIDE DEF IInv
      <4>1. result \in Int
        BY DEF IInv, TypeOK
      <4> QED
        BY <3>3, <4>1 DEF CONN_TIMES
    <3> HIDE DEF IInv
    <3>5. /\ ~StopsAt(taken', rtt') /\ result' >= 0 /\ taken' = CONN_TIMES
          /\ result' # -1 /\ taken' # 0
      BY <3>1, <3>3, <3>4
    <3>6. IF Measured' = {} THEN result' = 0
          ELSE /\ \E k \in Measured' : rtt'[k] <= result'
               /\ \E k \in Measured' : rtt'[k] >= result'
      BY <3>1, <3>2, <3>3
    <3> QED
      BY <3>1, <3>5, <3>6 DEF SampleInv
  <2>3. CASE reschedule \/ sendDelayed
    BY <2>3 DEF reschedule, sendDelayed, SampleInv
  <2> QED
    BY <2>1, <2>2, <2>3
<1> QED
  BY <1>2, <1>3, <1>4, <1>5, <1>6

LEMMA NextIInv ==
  ASSUME IInv, [Next]_vars
  PROVE  IInv'
<1>1. CASE Next
  BY <1>1, OwnerPreserves, ReleasePreserves, LookupPreserves, ConnectPreserves, EndPreserves
     DEF Next, Diagnose
<1>2. CASE UNCHANGED vars
  BY <1>2 DEF vars, IInv, TypeOK, DiagnosisInv, ChainInv, Chains, FieldInv, SampleInv,
     StopsAt, Measured
<1> QED
  BY <1>1, <1>2

LEMMA AlwaysIInv == Spec => []IInv
BY InitIInv, NextIInv, PTL DEF Spec

-----------------------------------------------------------------------------
\* Every reachable state has the declared types; there are never more messages
\* than calls.
THEOREM TypesHold == Spec => []TypeOK
<1>1. IInv => TypeOK
  BY DEF IInv
<1> QED
  BY <1>1, AlwaysIInv, PTL

\* Without a release() no interleaving ends the ping thread with an exception.
THEOREM OnlyReleaseKills == Spec => []DiesOnlyInRelease
<1>1. IInv => DiesOnlyInRelease
  BY DEF IInv, FieldInv, DiesOnlyInRelease
<1> QED
  BY <1>1, AlwaysIInv, PTL

\* A message that is handled after release() returned does no harm.
THEOREM LateMessagesHarmless == Spec => []LateMessageHarmless
<1>1. IInv => LateMessageHarmless
  BY DEF IInv, FieldInv, LateMessageHarmless
<1> QED
  BY <1>1, AlwaysIInv, PTL

\* A delay is the mean of samples of its own diagnosis, whatever the samples.
THEOREM DelaysFromOwnSamples == Spec => []DelayFromOwnSamples
<1>1. IInv => DelayFromOwnSamples
  BY DEF IInv, SampleInv, DelayFromOwnSamples
<1> QED
  BY <1>1, AlwaysIInv, PTL

\* A diagnosis that connected gives up exactly after two like failures in a row.
THEOREM GivesUpExactly == Spec => []GivesUpOnTwoInARow
<1>1. IInv => GivesUpOnTwoInARow
  BY DEF IInv, SampleInv, TypeOK, StopsAt, GivesUpOnTwoInARow
<1> QED
  BY <1>1, AlwaysIInv, PTL

\* Only release() ends a chain of measurements.
THEOREM ChainsAlwaysPersist == Spec => ChainsPersist
<1>1. IInv /\ [Next]_vars => [rel = "no" /\ async => Chains' >= Chains]_vars
  <2> SUFFICES ASSUME IInv, Next, rel = "no", async PROVE Chains' >= Chains
    OBVIOUS
  <2> USE DEF fields, queue, owner, ping, Goto
  <2>0. /\ due \in Nat /\ delayed \in Nat /\ ~quit
        /\ hthread /\ pc # "died" /\ pc' # "died"
    <3>1. rel' = "no" => pc' # "died"
      BY NextIInv DEF IInv, FieldInv
    <3>2. pc' = "died" => rel' = rel
      BY DEF Next, Diagnose, getDelay, getDelay2, beginRelease, release, messageDue, handleMessage,
         clearList, isNetworkConnected, getActiveNetworkInfo, onError, parseDomain, addAddress,
         execUseJava, firstAddress, execSocket, execIP, ontDelay, reschedule, sendDelayed,
         NotConnected, Die, Return, OwnerFree
    <3> QED
      BY <3>1, <3>2, PingAssumption DEF IInv, TypeOK, ChainInv, FieldInv
  <2>1. CASE getDelay \/ getDelay2 \/ beginRelease \/ release
    <3>1. due' \in {due, due + 1} /\ UNCHANGED <<async, delayed, pc>>
      <4>1. CASE getDelay
        BY <2>0, <4>1 DEF getDelay
      <4>2. CASE beginRelease
        BY <4>2 DEF beginRelease
      <4> QED
        BY <2>1, <4>1, <4>2 DEF getDelay2, release
    <3>2. CASE due' = due
      BY <2>0, <3>1, <3>2 DEF Chains
    <3>3. CASE due' = due + 1
      BY <2>0, <3>1, <3>3 DEF Chains
    <3> QED
      BY <3>1, <3>2, <3>3
  <2>2. CASE messageDue
    BY <2>0, <2>2 DEF Chains, messageDue
  <2>3. CASE handleMessage
    BY <2>0, <2>3 DEF Chains, handleMessage
  <2>4. CASE reschedule
    BY <2>0, <2>4 DEF Chains, reschedule
  <2>5. CASE sendDelayed
    BY <2>0, <2>5 DEF Chains, sendDelayed
  <2>6. CASE pc' # "idle" /\ UNCHANGED <<due, delayed, async>>
    BY <2>0, <2>6 DEF Chains
  <2>7. CASE Diagnose /\ ~reschedule /\ ~sendDelayed
    BY <2>6, <2>7 DEF Diagnose, clearList, isNetworkConnected, getActiveNetworkInfo, onError,
       parseDomain, addAddress, execUseJava, firstAddress, execSocket, execIP, ontDelay,
       NotConnected, Die, Return
  <2> QED
    BY <2>1, <2>2, <2>3, <2>4, <2>5, <2>7 DEF Next, Diagnose
<1> QED
  BY <1>1, AlwaysIInv, PTL DEF Spec, ChainsPersist
=============================================================================
