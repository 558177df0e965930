----------------------- MODULE BlufiSecurity_proofs -----------------------
(***************************************************************************)
(* Proofs about BlufiSecurity, for every number of memory blocks,          *)
(* connections, negotiations and waiting jobs: the type invariant, that    *)
(* one place only leads to a fault and none to a leak or a wrong key, and  *)
(* that every phone which waits for an answer has an error on its way.     *)
(***************************************************************************)
EXTENDS BlufiSecurity, TLAPS

USE NullAssumption, BoundAssumption

---------------------------------------------------------------------------
(* Typing.                                                                 *)

Types == {"connect", "disconnect", "start adv", "stop adv", "error", "report"}

LEMMA NewTyped ==
    ASSUME TypeOK, NEW type \in Types
    PROVE  New(type) \in Job /\ New(type).type = type
BY DEF New, Job, Types, TypeOK

LEMMA PostTyped ==
    ASSUME TypeOK, NEW type \in Types, Post(type)
    PROVE  btcq' \in Seq(Job)
BY NewTyped DEF Post, TypeOK

LEMMA TakeTyped ==
    ASSUME TypeOK, NEW type, Ready(type)
    PROVE  Tail(btcq) \in Seq(Job) /\ Head(btcq) \in Job
BY DEF Ready, TypeOK

LEMMA AppendTyped ==
    ASSUME NEW q \in Seq(Job), NEW e \in Job
    PROVE  Append(q, e) \in Seq(Job)
OBVIOUS

LEMMA SessionTyped == Raw \in Session /\ Fresh \in Session
BY DEF Raw, Fresh, Session, Pointer, Key

LEMMA KindTyped == Kind \in {"null", "dangling", "uninitialised"}
BY DEF Kind

LEMMA ReportTyped ==
    ASSUME TypeOK, ReportError
    PROVE  btcq' \in Seq(Job)
BY PostTyped DEF ReportError, Types

\* What a frame changes besides the phone and the number of negotiations.
FrameTyped ==
    /\ live' \subseteq Block /\ ses' \in Session /\ btcq' \in Seq(Job)
    /\ fault' \in {"none", "null", "dangling", "uninitialised"}

LEMMA UndefinedTyped ==
    ASSUME TypeOK, Frame, Undefined
    PROVE  FrameTyped
<1>1. fault' \in {"none", "null", "dangling", "uninitialised"}
  BY KindTyped DEF Undefined
<1> QED
  BY <1>1 DEF Undefined, FrameTyped, TypeOK

LEMMA NotInitialisedTyped ==
    ASSUME TypeOK, Frame, NotInitialised
    PROVE  FrameTyped
BY ReportTyped DEF NotInitialised, FrameTyped, TypeOK

LEMMA ParamLenTyped ==
    ASSUME TypeOK, Frame, ParamLen
    PROVE  FrameTyped
<1>1. fault' = fault
  BY DEF ParamLen
<1>2. CASE \E b \in Block \ (live \ {ses.dh_param}) :
              /\ live' = (live \ {ses.dh_param}) \cup {b}
              /\ ses' = [ses EXCEPT !.dh_param = b]
              /\ UNCHANGED btcq
  BY <1>1, <1>2 DEF FrameTyped, TypeOK, Session, Pointer
<1>3. CASE /\ live' = live \ {ses.dh_param}
           /\ ses' = [ses EXCEPT !.dh_param = NULL]
           /\ ReportError
  BY <1>1, <1>3, ReportTyped DEF FrameTyped, TypeOK, Session, Pointer
<1> QED
  BY <1>2, <1>3 DEF ParamLen

LEMMA ParamDataTyped ==
    ASSUME TypeOK, Frame, ParamDataNoParam \/ ParamDataParam, UNCHANGED fault
    PROVE  FrameTyped /\ phone' \in Phone /\ silent' \in BOOLEAN
<1>2. CASE ParamDataNoParam
  BY <1>2, ReportTyped
  DEF ParamDataNoParam, FrameTyped, TypeOK, Phone
<1>3. CASE ParamDataParam
  <2>1. ASSUME ReadParamsFail \/ MakePublicFail,
               phone' = [phone EXCEPT !.step = "waiting"], UNCHANGED silent
        PROVE  FrameTyped /\ phone' \in Phone /\ silent' \in BOOLEAN
    <3>1. /\ live' \subseteq Block /\ ses' \in Session /\ btcq' \in Seq(Job)
      BY <2>1, ReportTyped DEF ReadParamsFail, MakePublicFail, TypeOK, Session, Pointer
    <3> QED
      BY <2>1, <3>1 DEF FrameTyped, TypeOK, Phone
  <2>2. ASSUME NEW key \in Key, Derived(key), silent' \in BOOLEAN,
               phone' = [step |-> "idle", key |-> neg]
        PROVE  FrameTyped /\ phone' \in Phone /\ silent' \in BOOLEAN
    <3>1. live' \subseteq Block /\ ses' \in Session /\ btcq' \in Seq(Job)
      BY <2>2 DEF Derived, TypeOK, Session, Pointer
    <3> QED
      BY <2>2, <3>1 DEF FrameTyped, TypeOK, Phone, Key
  <2>3. neg \in Key /\ 0 \in Key
    BY DEF TypeOK, Key
  <2> QED
    BY <1>3, <2>1, <2>2, <2>3 DEF ParamDataParam
<1> QED
  BY <1>2, <1>3

\* Every variable keeps its type in every step.
LEMMA TypeStep == TypeOK /\ [Next]_vars => TypeOK'
<1> SUFFICES ASSUME TypeOK, [Next]_vars PROVE TypeOK'
  OBVIOUS
<1>1. CASE LinkUp
  <2>1. epoch' \in 0..MaxConn
    BY <1>1 DEF LinkUp, TypeOK
  <2>2. btcq' \in Seq(Job)
    <3>1. [type |-> "connect", epoch |-> epoch'] \in Job
      BY <2>1 DEF Job
    <3> QED
      BY <1>1, <3>1 DEF LinkUp, TypeOK
  <2>3. phone' \in Phone
    BY <1>1 DEF LinkUp, NewPhone, Phone, Key
  <2> QED
    BY <1>1, <2>1, <2>2, <2>3 DEF LinkUp, TypeOK, memory
<1>2. CASE LinkDown
  <2>1. btcq' \in Seq(Job)
    BY <1>2, PostTyped DEF LinkDown, Types
  <2>2. phone' \in Phone
    BY <1>2 DEF LinkDown, NewPhone, Phone, Key
  <2> QED
    BY <1>2, <2>1, <2>2 DEF LinkDown, TypeOK, memory
<1>3. CASE RecvParamLen
  <2>0. Frame /\ neg < MaxNeg /\ UNCHANGED <<blufi_sec, btc, link>>
    BY <1>3 DEF RecvParamLen
  <2>1. CASE (NotInitialised \/ ParamLen) /\ phone' = [step |-> "sent_len", key |-> 0]
             /\ neg' = neg + 1 /\ UNCHANGED silent
    <3>1. FrameTyped
      BY <2>0, <2>1, NotInitialisedTyped, ParamLenTyped
    <3>2. phone' \in Phone /\ neg' \in 0..MaxNeg
      BY <2>0, <2>1 DEF Phone, Key, TypeOK
    <3> QED
      BY <2>0, <2>1, <3>1, <3>2 DEF FrameTyped, TypeOK, link
  <2>2. CASE Undefined
    BY <2>0, <2>2, UndefinedTyped DEF Undefined, FrameTyped, TypeOK, link
  <2> QED
    BY <1>3, <2>1, <2>2 DEF RecvParamLen
<1>4. CASE RecvParamData
  <2>0. Frame /\ UNCHANGED <<blufi_sec, btc, link, neg>>
    BY <1>4 DEF RecvParamData
  <2>1. CASE NotInitialised /\ phone' = [phone EXCEPT !.step = "waiting"]
             /\ UNCHANGED silent
    <3>1. FrameTyped
      BY <2>0, <2>1, NotInitialisedTyped
    <3>2. phone' \in Phone
      BY <2>1 DEF Phone, TypeOK
    <3> QED
      BY <2>0, <2>1, <3>1, <3>2 DEF FrameTyped, TypeOK, link
  <2>2. CASE (ParamDataNoParam \/ ParamDataParam) /\ UNCHANGED fault
    <3>1. FrameTyped /\ phone' \in Phone /\ silent' \in BOOLEAN
      BY <2>0, <2>2, ParamDataTyped
    <3> QED
      BY <2>0, <3>1 DEF FrameTyped, TypeOK, link
  <2>3. CASE Undefined
    BY <2>0, <2>3, UndefinedTyped DEF Undefined, FrameTyped, TypeOK, link
  <2> QED
    BY <1>4, <2>1, <2>2, <2>3 DEF RecvParamData
<1>5. CASE RecvSecMode
  BY <1>5 DEF RecvSecMode, TypeOK, memory
<1>6. CASE RecvEncrypted
  <2>0. Frame /\ UNCHANGED <<blufi_sec, btc, link>>
    BY <1>6 DEF RecvEncrypted
  <2>1. CASE UNCHANGED <<live, ses, btcq, phone, neg, silent, fault>>
    BY <2>0, <2>1 DEF TypeOK, link
  <2>2. CASE Undefined
    BY <2>0, <2>2, UndefinedTyped DEF Undefined, FrameTyped, TypeOK, link
  <2> QED
    BY <1>6, <2>1, <2>2 DEF RecvEncrypted
<1>7. CASE PostReport
  <2>1. btcq' \in Seq(Job)
    BY <1>7, PostTyped DEF PostReport, Types
  <2> QED
    BY <1>7, <2>1 DEF PostReport, TypeOK, memory, link
<1>8. CASE BleConnect
  <2>0. Tail(btcq) \in Seq(Job) /\ New("stop adv") \in Job
    <3>1. Ready("connect")
      BY <1>8 DEF BleConnect
    <3>2. New("stop adv") \in Job
      BY NewTyped DEF Types
    <3> QED
      BY <3>1, <3>2, TakeTyped
  <2>1. btcq' \in Seq(Job)
    <3>1. btcq' = Tail(btcq) \/ btcq' = Append(Tail(btcq), New("stop adv"))
      BY <1>8 DEF BleConnect
    <3> QED
      BY <2>0, <3>1, AppendTyped
  <2>2. /\ live' \subseteq Block /\ blufi_sec' \in Pointer /\ ses' \in Session
        /\ btc' \in {"idle", "memset", "clear", "free", "null"}
    BY <1>8, SessionTyped DEF BleConnect, Pointer, TypeOK
  <2> QED
    BY <1>8, <2>1, <2>2 DEF BleConnect, TypeOK, link
<1>9. CASE InitMemset \/ DeinitClear
  <2>1. ses' \in Session /\ btc' \in {"idle", "free"}
    BY <1>9, SessionTyped DEF InitMemset, DeinitClear
  <2> QED
    BY <1>9, <2>1 DEF InitMemset, DeinitClear, TypeOK, link
<1>10. CASE BleDisconnect
  <2>0. Tail(btcq) \in Seq(Job) /\ New("start adv") \in Job
    <3>1. Ready("disconnect")
      BY <1>10 DEF BleDisconnect
    <3>2. New("start adv") \in Job
      BY NewTyped DEF Types
    <3> QED
      BY <3>1, <3>2, TakeTyped
  <2>1. btcq' \in Seq(Job)
    <3>1. btcq' = Tail(btcq) \/ btcq' = Append(Tail(btcq), New("start adv"))
      BY <1>10 DEF BleDisconnect
    <3> QED
      BY <2>0, <3>1, AppendTyped
  <2> QED
    BY <1>10, <2>1 DEF BleDisconnect, TypeOK, link
<1>11. CASE DeinitFree \/ DeinitNull
  <2>1. btcq' \in Seq(Job)
    BY <1>11, PostTyped DEF DeinitFree, DeinitNull, TypeOK, Types
  <2> QED
    BY <1>11, <2>1 DEF DeinitFree, DeinitNull, TypeOK, Pointer, link
<1>15. CASE Advertise
  <2>1. btcq' \in Seq(Job) /\ adv' \in BOOLEAN
    BY <1>15, TakeTyped DEF Advertise, TakeJob
  <2> QED
    BY <1>15, <2>1 DEF Advertise, TypeOK, memory
<1>12. CASE ErrorReported
  <2>1. btcq' \in Seq(Job)
    BY <1>12, TakeTyped DEF ErrorReported, TakeJob
  <2>2. phone' \in Phone
    BY <1>12 DEF ErrorReported, NewPhone, Phone, Key, TypeOK
  <2> QED
    BY <1>12, <2>1, <2>2 DEF ErrorReported, TypeOK, memory, link
<1>13. CASE ReportSent
  <2>1. btcq' \in Seq(Job)
    BY <1>13, TakeTyped DEF ReportSent, TakeJob
  <2>2. fault' \in {"none", "null", "dangling", "uninitialised"}
    BY <1>13, KindTyped DEF ReportSent
  <2> QED
    BY <1>13, <2>1, <2>2 DEF ReportSent, TypeOK, memory, link
<1>14. CASE UNCHANGED vars
  BY <1>14 DEF vars, memory, link, TypeOK
<1> QED
  BY <1>1, <1>2, <1>3, <1>4, <1>5, <1>6, <1>7, <1>8, <1>9, <1>10, <1>11, <1>12,
     <1>13, <1>14, <1>15 DEF Next, Link, Btu, Btc

\* Every variable of the session, of the queue and of the phone keeps its type.
THEOREM TypeCorrect == Spec => []TypeOK
<1>1. Init => TypeOK
  <2> SUFFICES ASSUME Init PROVE TypeOK
    OBVIOUS
  <2>1. ses \in Session /\ phone \in Phone
    BY SessionTyped DEF Init, NewPhone, Phone, Key
  <2>2. btcq \in Seq(Job) /\ blufi_sec \in Pointer /\ epoch \in 0..MaxConn
        /\ neg \in 0..MaxNeg
    BY DEF Init, Pointer
  <2> QED
    BY <2>1, <2>2 DEF Init, TypeOK
<1> QED
  BY <1>1, TypeStep, PTL DEF Spec

---------------------------------------------------------------------------
(* The inductive invariant.                                                *)

\* The jobs that follow the link, and let the next one come.
Turn == {"connect", "disconnect", "start adv"}

Has(q, type) == \E i \in DOMAIN q : q[i].type = type
NoTurn(q)    == \A i \in DOMAIN q : q[i].type \notin Turn
InTurn(q)    == \A i, k \in DOMAIN q :
                   (i < k /\ q[i].type \in Turn /\ q[k].type \in Turn) =>
                      q[i].type = "connect" /\ q[k].type = "disconnect"

Deinit == {"clear", "free", "null"}

\* One connection at a time: a phone can come when BTC has nothing left to do for the
\* last one, and BTC comes to a connection when there is no session.
OneAtATime ==
    /\ InTurn(btcq)
    /\ Has(btcq, "connect") => btc = "idle" /\ blufi_sec = NULL /\ ~adv
    /\ conn => ~Has(btcq, "disconnect") /\ ~Has(btcq, "start adv") /\ ~adv /\ btc \notin Deinit
    /\ Has(btcq, "disconnect") => ~adv /\ btc \notin Deinit
    /\ Has(btcq, "start adv") => ~adv /\ btc = "idle" /\ blufi_sec = NULL
    /\ adv => btc = "idle" /\ blufi_sec = NULL
    /\ btc \in Deinit => NoTurn(btcq) /\ ~adv

\* What BTC has in hand, at each of its places.
InHand ==
    /\ live = Reachable
    /\ blufi_sec = NULL => ses.dh_param = NULL
    /\ ses.dh_param # NULL => ses.dh_param # blufi_sec
    /\ btc # "idle" => blufi_sec # NULL
    /\ btc \in {"memset", "free", "null"} => ses.dh_param = NULL
    /\ (btc = "idle" /\ blufi_sec # NULL) => ses.made
    /\ btc = "memset" => ~ses.made

\* A phone with a key, or with encryption, has its session.
Served == (conn /\ (sec_mode \/ phone.key # 0)) => btc = "idle" /\ blufi_sec # NULL

Agrees == (phone.key # 0 /\ ~silent) => ses.psk = phone.key
OnLine == phone.key # 0 => conn

Sane == InHand /\ Served /\ Agrees /\ OnLine /\ NoFault

LEMMA AppendFacts ==
    ASSUME NEW q \in Seq(Job), NEW e \in Job
    PROVE  /\ DOMAIN Append(q, e) = 1..(Len(q) + 1)
           /\ DOMAIN q = 1..Len(q) /\ Len(q) \in Nat
           /\ \A i \in DOMAIN q : Append(q, e)[i] = q[i]
           /\ Append(q, e)[Len(q) + 1] = e
OBVIOUS

LEMMA TailFacts ==
    ASSUME NEW q \in Seq(Job), q # <<>>
    PROVE  /\ DOMAIN q = 1..Len(q) /\ Len(q) \in Nat \ {0}
           /\ DOMAIN Tail(q) = 1..(Len(q) - 1)
           /\ \A i \in DOMAIN Tail(q) : Tail(q)[i] = q[i + 1]
           /\ Head(q) = q[1]
OBVIOUS

\* A job behind the queue, and what it may be with regard to those in front.
LEMMA TurnBehind ==
    ASSUME NEW q \in Seq(Job), NEW e \in Job
    PROVE  /\ \A type : Has(Append(q, e), type) <=> (Has(q, type) \/ e.type = type)
           /\ NoTurn(Append(q, e)) <=> (NoTurn(q) /\ e.type \notin Turn)
           /\ (InTurn(q) /\ (e.type \notin Turn \/ NoTurn(q)
                               \/ (e.type = "disconnect" /\ ~Has(q, "disconnect")
                                     /\ ~Has(q, "start adv"))))
                => InTurn(Append(q, e))
<1> DEFINE p == Append(q, e)
<1>1. /\ Len(q) \in Nat
      /\ \A i \in DOMAIN q : i \in DOMAIN p /\ p[i] = q[i] /\ i <= Len(q)
      /\ Len(q) + 1 \in DOMAIN p /\ p[Len(q) + 1] = e
      /\ \A i \in DOMAIN p : i \in DOMAIN q \/ i = Len(q) + 1
      /\ \A i \in DOMAIN p : i \in Nat /\ i <= Len(q) + 1
  BY AppendFacts
<1> HIDE DEF p
<1>2. \A type : Has(p, type) <=> (Has(q, type) \/ e.type = type)
  BY <1>1 DEF Has
<1>3. NoTurn(p) <=> (NoTurn(q) /\ e.type \notin Turn)
  BY <1>1 DEF NoTurn
<1>4. ASSUME InTurn(q),
             e.type \notin Turn \/ NoTurn(q)
               \/ (e.type = "disconnect" /\ ~Has(q, "disconnect") /\ ~Has(q, "start adv")),
             NEW i \in DOMAIN p, NEW k \in DOMAIN p, i < k,
             p[i].type \in Turn, p[k].type \in Turn
      PROVE  p[i].type = "connect" /\ p[k].type = "disconnect"
  <2>1. i \in DOMAIN q
    <3>1. i \in Nat /\ k \in Nat /\ k <= Len(q) + 1 /\ Len(q) \in Nat
      BY <1>1, <1>4
    <3>2. i < k
      BY <1>4
    <3>3. i # Len(q) + 1
      BY <3>1, <3>2
    <3> QED
      BY <1>1, <1>4, <3>3
  <2>2. CASE k \in DOMAIN q
    BY <1>1, <1>4, <2>1, <2>2 DEF InTurn
  <2>3. CASE k = Len(q) + 1
    BY <1>1, <1>4, <2>1, <2>3 DEF NoTurn, Has, Turn
  <2> QED
    BY <1>1, <2>2, <2>3
<1> QED
  BY <1>2, <1>3, <1>4 DEF p, InTurn

\* A job taken off the queue: what is behind it.
LEMMA TurnTaken ==
    ASSUME NEW q \in Seq(Job), q # <<>>, InTurn(q)
    PROVE  /\ InTurn(Tail(q)) /\ Tail(q) \in Seq(Job)
           /\ Has(q, Head(q).type)
           /\ \A type : Has(Tail(q), type) => Has(q, type)
           /\ Head(q).type = "connect" => ~Has(Tail(q), "connect") /\ ~Has(Tail(q), "start adv")
           /\ Head(q).type \in Turn \ {"connect"} => NoTurn(Tail(q))
           /\ NoTurn(q) => NoTurn(Tail(q))
<1> DEFINE p == Tail(q)
<1>1. /\ 1 \in DOMAIN q /\ Head(q) = q[1] /\ p \in Seq(Job)
      /\ \A i \in DOMAIN p : i + 1 \in DOMAIN q /\ p[i] = q[i + 1] /\ 1 < i + 1
      /\ \A i, k \in DOMAIN p : i < k => i + 1 < k + 1
  BY TailFacts
<1> HIDE DEF p
<1>2. InTurn(p)
  BY <1>1 DEF InTurn
<1>3. Has(q, Head(q).type)
  BY <1>1 DEF Has
<1>4. \A type : Has(p, type) => Has(q, type)
  BY <1>1 DEF Has
<1>5. ASSUME NEW i \in DOMAIN p, p[i].type \in Turn, q[1].type \in Turn
      PROVE  q[1].type = "connect" /\ p[i].type = "disconnect"
  BY <1>1, <1>5 DEF InTurn
<1>6. Head(q).type = "connect" => ~Has(p, "connect") /\ ~Has(p, "start adv")
  BY <1>1, <1>5 DEF Has, Turn
<1>7. Head(q).type \in Turn \ {"connect"} => NoTurn(p)
  BY <1>1, <1>5 DEF NoTurn
<1>8. NoTurn(q) => NoTurn(p)
  BY <1>1 DEF NoTurn
<1> QED
  BY <1>1, <1>2, <1>3, <1>4, <1>6, <1>7, <1>8 DEF p

LEMMA TurnHas ==
    ASSUME NEW q
    PROVE  NoTurn(q) <=> \A type \in Turn : ~Has(q, type)
BY DEF NoTurn, Has

\* The queue does not change, or only by an error or a report.
Quiet ==
    \/ UNCHANGED btcq
    \/ \E e \in Job : e.type \in {"error", "report"} /\ btcq' = Append(btcq, e)

LEMMA QuietPost ==
    ASSUME TypeOK, NEW type \in {"error", "report"}, Post(type)
    PROVE  Quiet
BY NewTyped DEF Post, Quiet, Types

LEMMA FrameQuiet ==
    ASSUME TypeOK, Btu
    PROVE  Quiet /\ UNCHANGED <<conn, adv, btc, blufi_sec>>
<1>1. ReportError => Quiet
  BY QuietPost DEF ReportError
<1>2. UNCHANGED <<conn, adv, epoch, btc, blufi_sec>>
  BY DEF Btu, RecvParamLen, RecvParamData, RecvSecMode, RecvEncrypted, link, memory
<1>3. CASE RecvParamLen
  BY <1>1, <1>2, <1>3 DEF RecvParamLen, NotInitialised, ParamLen, Undefined, Quiet
<1>4. CASE RecvParamData
  BY <1>1, <1>2, <1>4
  DEF RecvParamData, NotInitialised, ParamDataNoParam, ParamDataParam, ReadParamsFail,
      MakePublicFail, Derived, Undefined, Quiet
<1>5. CASE RecvSecMode \/ RecvEncrypted
  BY <1>2, <1>5 DEF RecvSecMode, RecvEncrypted, Undefined, Quiet
<1> QED
  BY <1>2, <1>3, <1>4, <1>5 DEF Btu

LEMMA QuietTurn ==
    ASSUME TypeOK, OneAtATime, Quiet, UNCHANGED <<conn, adv>>,
           UNCHANGED <<btc, blufi_sec>>
    PROVE  OneAtATime'
<1>1. CASE UNCHANGED btcq
  BY <1>1 DEF OneAtATime
<1>2. ASSUME NEW e \in Job, e.type \in {"error", "report"}, btcq' = Append(btcq, e)
      PROVE  OneAtATime'
  <2>1. /\ \A type \in Turn : Has(btcq', type) <=> Has(btcq, type)
        /\ NoTurn(btcq') <=> NoTurn(btcq)
        /\ InTurn(btcq) => InTurn(btcq')
    BY <1>2, TurnBehind DEF TypeOK, Turn
  <2> QED
    BY <2>1 DEF OneAtATime, Turn
<1> QED
  BY <1>1, <1>2 DEF Quiet

\* The link, BTC and the advertising keep their turns.
LEMMA TurnStep == TypeOK /\ InHand /\ OneAtATime /\ [Next]_vars => OneAtATime'
<1> SUFFICES ASSUME TypeOK, InHand, OneAtATime, [Next]_vars PROVE OneAtATime'
  OBVIOUS
<1>0. btcq \in Seq(Job)
  BY DEF TypeOK
<1>1. CASE LinkUp
  <2> DEFINE e == [type |-> "connect", epoch |-> epoch']
  <2>1. e \in Job /\ e.type = "connect" /\ btcq' = Append(btcq, e)
    <3>1. epoch' \in 0..MaxConn
      BY <1>1 DEF LinkUp, TypeOK
    <3> QED
      BY <1>1, <3>1 DEF LinkUp, Job
  <2> HIDE DEF e
  <2>2. ~Has(btcq, "connect") /\ ~Has(btcq, "disconnect") /\ ~Has(btcq, "start adv")
    BY <1>1 DEF LinkUp, OneAtATime
  <2>3. NoTurn(btcq)
    BY <2>2, TurnHas DEF Turn
  <2>4. InTurn(btcq') /\ ~Has(btcq', "disconnect") /\ ~Has(btcq', "start adv")
    BY <1>0, <2>1, <2>2, <2>3, TurnBehind DEF OneAtATime
  <2>5. btc' = "idle" /\ blufi_sec' = NULL /\ ~adv'
    BY <1>1 DEF LinkUp, memory, OneAtATime
  <2> QED
    BY <2>4, <2>5 DEF OneAtATime, Deinit
<1>2. CASE LinkDown
  <2> DEFINE e == New("disconnect")
  <2>1. e \in Job /\ e.type = "disconnect" /\ btcq' = Append(btcq, e)
    BY <1>2, NewTyped DEF LinkDown, Post, Types
  <2> HIDE DEF e
  <2>2. /\ ~Has(btcq, "disconnect") /\ ~Has(btcq, "start adv") /\ ~adv /\ btc \notin Deinit
        /\ ~conn' /\ UNCHANGED <<adv, btc, blufi_sec>>
    BY <1>2 DEF LinkDown, memory, OneAtATime
  <2>3. /\ InTurn(btcq') /\ ~Has(btcq', "start adv")
        /\ Has(btcq', "connect") <=> Has(btcq, "connect")
    BY <1>0, <2>1, <2>2, TurnBehind DEF OneAtATime
  <2> QED
    BY <2>2, <2>3 DEF OneAtATime
<1>3. CASE Btu
  BY <1>3, FrameQuiet, QuietTurn
<1>4. CASE PostReport
  <2>1. Quiet
    BY <1>4, QuietPost DEF PostReport
  <2> QED
    BY <1>4, <2>1, QuietTurn DEF PostReport, memory, link
<1>5. CASE BleConnect
  <2>1. btcq # <<>> /\ Head(btcq).type = "connect" /\ UNCHANGED <<conn, adv>>
    BY <1>5 DEF BleConnect, Ready, link
  <2>2. /\ InTurn(Tail(btcq)) /\ Tail(btcq) \in Seq(Job) /\ Has(btcq, "connect")
        /\ ~Has(Tail(btcq), "connect") /\ ~Has(Tail(btcq), "start adv")
        /\ Has(Tail(btcq), "disconnect") => Has(btcq, "disconnect")
    BY <1>0, <2>1, TurnTaken DEF OneAtATime
  <2>3. New("stop adv") \in Job /\ New("stop adv").type = "stop adv"
    BY NewTyped DEF Types
  <2>4. btcq' = Append(Tail(btcq), New("stop adv"))
    BY <1>5 DEF BleConnect
  <2>5. /\ InTurn(btcq') /\ ~Has(btcq', "connect") /\ ~Has(btcq', "start adv")
        /\ Has(btcq', "disconnect") => Has(btcq, "disconnect")
    BY <2>2, <2>3, <2>4, TurnBehind DEF Turn
  <2>6. ~adv /\ btc' \in {"idle", "memset"}
    BY <1>5, <2>2 DEF BleConnect, Ready, OneAtATime
  <2> QED
    BY <2>1, <2>5, <2>6 DEF OneAtATime, Deinit
<1>6. CASE BleDisconnect
  <2>1. btcq # <<>> /\ Head(btcq).type = "disconnect" /\ UNCHANGED <<conn, adv, blufi_sec>>
    BY <1>6 DEF BleDisconnect, Ready, link
  <2>2. /\ InTurn(Tail(btcq)) /\ Tail(btcq) \in Seq(Job) /\ Has(btcq, "disconnect")
        /\ NoTurn(Tail(btcq))
    BY <1>0, <2>1, TurnTaken DEF OneAtATime, Turn
  <2>3. ~adv /\ ~conn
    BY <2>2 DEF OneAtATime
  <2>4. CASE blufi_sec = NULL
    <3>1. New("start adv") \in Job /\ New("start adv").type = "start adv"
      BY NewTyped DEF Types
    <3>2. btcq' = Append(Tail(btcq), New("start adv")) /\ btc' = "idle"
      BY <1>6, <2>4 DEF BleDisconnect, Ready
    <3>3. InTurn(btcq') /\ ~Has(btcq', "connect") /\ ~Has(btcq', "disconnect")
      BY <2>2, <3>1, <3>2, TurnBehind, TurnHas DEF Turn
    <3> QED
      BY <2>1, <2>3, <2>4, <3>2, <3>3 DEF OneAtATime, Deinit
  <2>5. CASE blufi_sec # NULL
    <3>1. btcq' = Tail(btcq) /\ btc' = "clear"
      BY <1>6, <2>5 DEF BleDisconnect
    <3>2. ~Has(btcq', "connect") /\ ~Has(btcq', "disconnect") /\ ~Has(btcq', "start adv")
      BY <2>2, <3>1, TurnHas DEF Turn
    <3> QED
      BY <2>1, <2>2, <2>3, <3>1, <3>2 DEF OneAtATime
  <2> QED
    BY <2>4, <2>5
<1>7. CASE InitMemset
  <2>1. btc = "memset" /\ btc' = "idle" /\ UNCHANGED <<btcq, conn, adv, blufi_sec>>
    BY <1>7 DEF InitMemset, link
  <2>2. InTurn(btcq') /\ ~Has(btcq', "connect") /\ ~Has(btcq', "start adv") /\ ~adv'
    BY <2>1 DEF OneAtATime
  <2>3. /\ conn' => ~Has(btcq', "disconnect")
        /\ btc' \notin Deinit
    BY <2>1 DEF OneAtATime, Deinit
  <2> QED
    BY <2>2, <2>3 DEF OneAtATime
<1>8. CASE DeinitClear \/ DeinitFree
  <2>1. btc \in Deinit /\ btc' \in Deinit /\ UNCHANGED <<btcq, conn, adv, blufi_sec>>
    BY <1>8 DEF DeinitClear, DeinitFree, link, Deinit
  <2>2. NoTurn(btcq') /\ InTurn(btcq') /\ ~adv' /\ ~conn'
    BY <2>1 DEF OneAtATime
  <2>3. ~Has(btcq', "connect") /\ ~Has(btcq', "disconnect") /\ ~Has(btcq', "start adv")
    BY <2>2, TurnHas DEF Turn
  <2> QED
    BY <2>2, <2>3 DEF OneAtATime
<1>9. CASE DeinitNull
  <2>1. New("start adv") \in Job /\ New("start adv").type = "start adv"
    BY NewTyped DEF Types
  <2>2. /\ btcq' = Append(btcq, New("start adv")) /\ btc' = "idle" /\ blufi_sec' = NULL
        /\ UNCHANGED <<conn, adv>>
    BY <1>9 DEF DeinitNull, Post, link
  <2>3. NoTurn(btcq) /\ ~adv /\ ~conn
    BY <1>9 DEF DeinitNull, OneAtATime, Deinit
  <2>4. InTurn(btcq') /\ ~Has(btcq', "connect") /\ ~Has(btcq', "disconnect")
    BY <1>0, <2>1, <2>2, <2>3, TurnBehind, TurnHas DEF Turn, OneAtATime
  <2> QED
    BY <2>2, <2>3, <2>4 DEF OneAtATime, Deinit
<1>10. ASSUME btcq # <<>>, btcq' = Tail(btcq), UNCHANGED <<conn, btc, blufi_sec>>,
              adv' = adv \/ ~adv'
                \/ (Head(btcq).type = "start adv" /\ btc = "idle")
       PROVE  OneAtATime'
  <2>1. /\ InTurn(Tail(btcq)) /\ Has(btcq, Head(btcq).type)
        /\ \A type : Has(Tail(btcq), type) => Has(btcq, type)
        /\ Head(btcq).type = "start adv" => NoTurn(Tail(btcq))
        /\ NoTurn(btcq) => NoTurn(Tail(btcq))
    BY <1>0, <1>10, TurnTaken DEF OneAtATime, Turn
  <2>2. CASE UNCHANGED adv \/ ~adv'
    <3>1. adv' => adv
      BY <2>2
    <3>2. /\ InTurn(btcq')
          /\ Has(btcq', "connect") => Has(btcq, "connect")
          /\ Has(btcq', "disconnect") => Has(btcq, "disconnect")
          /\ Has(btcq', "start adv") => Has(btcq, "start adv")
          /\ NoTurn(btcq) => NoTurn(btcq')
      BY <1>10, <2>1
    <3> QED
      BY <1>10, <3>1, <3>2 DEF OneAtATime
  <2>3. CASE Head(btcq).type = "start adv" /\ btc = "idle"
    <3>1. ~Has(btcq', "connect") /\ ~Has(btcq', "disconnect") /\ ~Has(btcq', "start adv")
      BY <1>10, <2>1, <2>3, TurnHas DEF Turn
    <3>2. blufi_sec = NULL /\ ~conn
      BY <2>1, <2>3 DEF OneAtATime
    <3> QED
      BY <1>10, <2>1, <2>3, <3>1, <3>2 DEF OneAtATime, Deinit
  <2> QED
    BY <1>10, <2>2, <2>3
<1>11. CASE Advertise
  <2>1. CASE TakeJob("start adv")
    BY <1>10, <1>11, <2>1 DEF Advertise, TakeJob, Ready, memory
  <2>2. CASE TakeJob("stop adv") /\ adv' = FALSE
    BY <1>10, <1>11, <2>2 DEF Advertise, TakeJob, Ready, memory
  <2> QED
    BY <1>11, <2>1, <2>2 DEF Advertise
<1>12. CASE ErrorReported \/ ReportSent
  BY <1>10, <1>12 DEF ErrorReported, ReportSent, TakeJob, Ready, memory, link
<1>13. CASE UNCHANGED vars
  BY <1>13 DEF vars, memory, link, OneAtATime
<1> QED
  BY <1>1, <1>2, <1>3, <1>4, <1>5, <1>6, <1>7, <1>8, <1>9, <1>11, <1>12, <1>13
  DEF Next, Link, Btc

---------------------------------------------------------------------------
(* The session.                                                            *)

\* The session can be used while BTC is not at it.
LEMMA SessionThere ==
    ASSUME InHand, btc = "idle", blufi_sec # NULL
    PROVE  Sound /\ BufferSound
BY DEF InHand, Reachable, Sound, BufferSound

\* A frame that uses memory it should not have comes between malloc and memset.
LEMMA OnlyThere ==
    ASSUME TypeOK, OneAtATime, InHand, conn, blufi_sec # NULL, ~BufferSound \/ ~Sound
    PROVE  btc = "memset" /\ Kind = "uninitialised"
<1>1. btc = "memset"
  BY SessionThere DEF OneAtATime, Deinit, TypeOK
<1>2. ~ses.made
  BY <1>1 DEF InHand
<1> QED
  BY <1>1, <1>2 DEF Kind

\* The blocks after the parameter buffer was freed, and after another was allocated.
LEMMA HandFreed ==
    ASSUME TypeOK, InHand, btc = "idle", UNCHANGED <<blufi_sec, btc>>,
           live' = live \ {ses.dh_param},
           ses'.dh_param = NULL, ses'.made = ses.made
    PROVE  InHand'
BY DEF InHand, Reachable, TypeOK, Pointer

LEMMA HandAllocated ==
    ASSUME TypeOK, InHand, btc = "idle", UNCHANGED <<blufi_sec, btc>>, blufi_sec # NULL,
           NEW b \in Block \ (live \ {ses.dh_param}),
           live' = (live \ {ses.dh_param}) \cup {b},
           ses'.dh_param = b, ses'.made = ses.made
    PROVE  InHand'
<1>1. live \ {ses.dh_param} = {blufi_sec}
  BY DEF InHand, Reachable
<1>2. b # NULL /\ b # blufi_sec /\ live' = {blufi_sec, b}
  BY <1>1
<1> QED
  BY <1>2 DEF InHand, Reachable

LEMMA HandKept ==
    ASSUME InHand, UNCHANGED <<live, blufi_sec, ses, btc>>
    PROVE  InHand'
BY DEF InHand, Reachable

\* A sound session is one that BTC is not at.
LEMMA SoundIdle ==
    ASSUME TypeOK, OneAtATime, InHand, conn, Sound
    PROVE  btc = "idle" /\ blufi_sec # NULL
BY DEF Sound, InHand, OneAtATime, Deinit, TypeOK

\* The frame that comes between malloc and memset.
LEMMA SaneUndefined ==
    ASSUME TypeOK, OneAtATime, Sane, Frame, Undefined, blufi_sec # NULL,
           ~BufferSound \/ ~Sound,
           UNCHANGED <<blufi_sec, btc, conn, sec_mode>>
    PROVE  Sane'
<1>1. btc = "memset" /\ Kind = "uninitialised" /\ conn
  BY OnlyThere DEF Sane, Frame
<1>2. NoFault'
  BY <1>1 DEF NoFault, Undefined
<1>3. InHand'
  BY HandKept DEF Sane, Undefined
<1>4. Served' /\ Agrees' /\ OnLine'
  BY DEF Sane, Undefined, Served, Agrees, OnLine
<1> QED
  BY <1>2, <1>3, <1>4 DEF Sane

LEMMA SaneParamLen ==
    ASSUME TypeOK, TypeOK', OneAtATime, Sane, RecvParamLen
    PROVE  Sane'
<1>0. Frame /\ UNCHANGED <<blufi_sec, btc, link>>
  BY DEF RecvParamLen
<1>1. InHand /\ Served /\ conn /\ fault = "none"
  BY <1>0 DEF Sane, Frame
<1>2. CASE Undefined /\ blufi_sec # NULL /\ ~BufferSound
  BY <1>0, <1>2, SaneUndefined DEF link
<1>3. CASE (NotInitialised \/ ParamLen) /\ phone' = [step |-> "sent_len", key |-> 0]
  <2>1. fault' = "none"
    BY <1>1, <1>3 DEF NotInitialised, ParamLen
  <2>2. ParamLen => blufi_sec # NULL /\ btc = "idle"
    <3>1. ParamLen => BufferSound
      BY Zenon DEF ParamLen
    <3> QED
      BY <1>1, <3>1, SoundIdle DEF BufferSound
  <2>4. ASSUME NEW b \in Block \ (live \ {ses.dh_param}), ParamLen,
               live' = (live \ {ses.dh_param}) \cup {b},
               ses' = [ses EXCEPT !.dh_param = b]
        PROVE  InHand'
    <3>1. ses'.dh_param = b /\ ses'.made = ses.made
      BY <2>4 DEF TypeOK, Session
    <3> QED
      BY <1>0, <1>1, <2>2, <2>4, <3>1, HandAllocated
  <2>5. ASSUME ParamLen, live' = live \ {ses.dh_param},
               ses' = [ses EXCEPT !.dh_param = NULL]
        PROVE  InHand'
    <3>1. ses'.dh_param = NULL /\ ses'.made = ses.made
      BY <2>5 DEF TypeOK, Session
    <3> QED
      BY <1>0, <1>1, <2>2, <2>5, <3>1, HandFreed
  <2>6. InHand'
    <3>1. NotInitialised => InHand'
      BY <1>0, <1>1, HandKept DEF NotInitialised
    <3> QED
      BY <1>3, <2>4, <2>5, <3>1 DEF ParamLen
  <2>7. Served'
    BY <1>0, <1>1, <1>3 DEF Served, link
  <2>8. Agrees' /\ OnLine'
    BY <1>3 DEF Agrees, OnLine
  <2> QED
    BY <2>1, <2>6, <2>7, <2>8 DEF Sane, NoFault
<1> QED
  BY <1>2, <1>3 DEF RecvParamLen

LEMMA SaneParamData ==
    ASSUME TypeOK, TypeOK', OneAtATime, Sane, RecvParamData
    PROVE  Sane'
<1>0. Frame /\ UNCHANGED <<blufi_sec, btc, link, neg>>
  BY DEF RecvParamData
<1>1. InHand /\ Served /\ Agrees /\ OnLine /\ conn /\ fault = "none" /\ conn'
  BY <1>0 DEF Sane, Frame, link
<1>2. ASSUME InHand', phone'.key = phone.key, UNCHANGED silent, fault' = "none",
             ses'.psk = ses.psk
      PROVE  Sane'
  <2>1. Served'
    BY <1>0, <1>1, <1>2 DEF Served, link
  <2> QED
    BY <1>1, <1>2, <2>1 DEF Sane, Agrees, OnLine, NoFault
<1>3. phone' = [phone EXCEPT !.step = "waiting"] => phone'.key = phone.key
  BY DEF TypeOK, Phone
<1>4. CASE NotInitialised /\ phone' = [phone EXCEPT !.step = "waiting"]
             /\ UNCHANGED silent
  BY <1>0, <1>1, <1>2, <1>3, <1>4, HandKept DEF NotInitialised
<1>5. CASE Undefined /\ blufi_sec # NULL /\ ~BufferSound
  BY <1>0, <1>5, SaneUndefined DEF link
<1>6. CASE ParamDataNoParam /\ UNCHANGED fault
  BY <1>0, <1>1, <1>2, <1>3, <1>6, HandKept DEF ParamDataNoParam
<1>7. BufferSound => btc = "idle" /\ blufi_sec # NULL
  BY <1>1, SoundIdle DEF BufferSound
<1>8. ASSUME ReadParamsFail \/ MakePublicFail, UNCHANGED <<fault, silent>>, BufferSound,
             phone' = [phone EXCEPT !.step = "waiting"]
      PROVE  Sane'
  <2>1. CASE ReadParamsFail
    BY <1>0, <1>1, <1>2, <1>3, <1>8, <2>1, HandKept DEF ReadParamsFail
  <2>2. CASE MakePublicFail
    <3>1. ses'.dh_param = NULL /\ ses'.made = ses.made /\ ses'.psk = ses.psk
      BY <2>2 DEF MakePublicFail, TypeOK, Session
    <3>2. InHand'
      BY <1>0, <1>1, <1>7, <1>8, <2>2, <3>1, HandFreed DEF MakePublicFail
    <3> QED
      BY <1>1, <1>2, <1>3, <1>8, <3>1, <3>2
  <2> QED
    BY <1>8, <2>1, <2>2
<1>9. ASSUME NEW key \in Key, Derived(key), key = neg \/ silent', UNCHANGED fault,
             phone' = [step |-> "idle", key |-> neg], BufferSound
      PROVE  Sane'
  <2>1. ses'.dh_param = NULL /\ ses'.made = ses.made /\ ses'.psk = key
    BY <1>9 DEF Derived, TypeOK, Session
  <2>2. InHand'
    BY <1>0, <1>1, <1>7, <1>9, <2>1, HandFreed DEF Derived
  <2>3. Served'
    BY <1>0, <1>7, <1>9 DEF Served
  <2>4. Agrees' /\ OnLine'
    BY <1>1, <1>9, <2>1 DEF Agrees, OnLine
  <2> QED
    BY <1>1, <1>9, <2>2, <2>3, <2>4 DEF Sane, NoFault
<1>10. CASE BufferSound /\ ParamDataParam /\ UNCHANGED fault
  <2>1. neg \in Key /\ 0 \in Key
    BY DEF TypeOK, Key
  <2> QED
    BY <1>8, <1>9, <1>10, <2>1 DEF ParamDataParam
<1> QED
  BY <1>4, <1>5, <1>6, <1>10 DEF RecvParamData

LEMMA SaneOtherFrames ==
    ASSUME TypeOK, TypeOK', OneAtATime, Sane, RecvSecMode \/ RecvEncrypted
    PROVE  Sane'
<1>1. Frame /\ phone.key # 0
  BY DEF RecvSecMode, RecvEncrypted
<1>2. InHand /\ Served /\ Agrees /\ OnLine /\ conn /\ fault = "none"
  BY <1>1 DEF Sane, Frame
<1>3. Sound
  BY <1>1, <1>2, SessionThere DEF Served
<1>4. UNCHANGED <<live, blufi_sec, ses, btc, phone, silent, fault, conn>>
  BY <1>3 DEF RecvSecMode, RecvEncrypted, memory, link
<1>5. InHand'
  BY <1>2, <1>4, HandKept
<1>6. Served'
  BY <1>1, <1>2, <1>4 DEF Served
<1> QED
  BY <1>2, <1>4, <1>5, <1>6 DEF Sane, Agrees, OnLine, NoFault

LEMMA SaneStep ==
    TypeOK /\ TypeOK' /\ OneAtATime /\ Sane /\ [Next]_vars => Sane'
<1> SUFFICES ASSUME TypeOK, TypeOK', OneAtATime, Sane, [Next]_vars PROVE Sane'
  OBVIOUS
<1>1. CASE Btu
  BY <1>1, SaneParamLen, SaneParamData, SaneOtherFrames DEF Btu
<1>2. CASE UNCHANGED vars
  <2>1. InHand'
    BY <1>2, HandKept DEF vars, memory, Sane
  <2> QED
    BY <1>2, <2>1 DEF vars, memory, link, Sane, Served, Agrees, OnLine, NoFault
<1>3. CASE Link \/ PostReport \/ Btc
  <2>0. /\ InHand /\ Served /\ Agrees /\ OnLine /\ fault = "none"
        /\ UNCHANGED silent
    BY <1>3 DEF Sane, Link, LinkUp, LinkDown, PostReport, Btc, BleConnect, InitMemset,
                BleDisconnect, DeinitClear, DeinitFree, DeinitNull, Advertise,
                ErrorReported, ReportSent, TakeJob, Ready
  <2>1. CASE LinkUp
    <3>1. InHand'
      BY <2>0, <2>1, HandKept DEF LinkUp, memory
    <3>2. phone'.key = 0 /\ ~sec_mode' /\ fault' = "none"
      BY <2>0, <2>1 DEF LinkUp, NewPhone
    <3> QED
      BY <3>1, <3>2 DEF Sane, Served, Agrees, OnLine, NoFault
  <2>2. CASE LinkDown
    <3>1. InHand'
      BY <2>0, <2>2, HandKept DEF LinkDown, memory
    <3>2. phone'.key = 0 /\ ~conn' /\ fault' = "none"
      BY <2>0, <2>2 DEF LinkDown, NewPhone
    <3> QED
      BY <3>1, <3>2 DEF Sane, Served, Agrees, OnLine, NoFault
  <2>3. CASE PostReport \/ Advertise
    <3>1. UNCHANGED <<live, blufi_sec, ses, btc, conn, sec_mode, phone, fault>>
      BY <2>3 DEF PostReport, Advertise, memory, link
    <3>2. InHand'
      BY <2>0, <3>1, HandKept
    <3> QED
      BY <2>0, <3>1, <3>2 DEF Sane, Served, Agrees, OnLine, NoFault
  <2>4. CASE BleConnect
    <3>1. /\ btc = "idle" /\ btcq # <<>> /\ Head(btcq).type = "connect"
          /\ UNCHANGED <<conn, sec_mode, phone, fault>>
      BY <2>4 DEF BleConnect, Ready, link
    <3>2. Has(btcq, "connect")
      BY <3>1, TurnTaken DEF OneAtATime, TypeOK
    <3>3. blufi_sec = NULL
      BY <3>2 DEF OneAtATime
    <3>4. live = {} /\ ses.dh_param = NULL
      BY <2>0, <3>1, <3>3 DEF InHand, Reachable
    <3>5. InHand'
      <4>1. ASSUME NEW b \in Block, live' = {b}, blufi_sec' = b, ses' = Raw, btc' = "memset"
            PROVE  InHand'
        <5>1. ses'.dh_param = NULL /\ ~ses'.made
          BY <4>1 DEF Raw
        <5> QED
          BY <4>1, <5>1 DEF InHand, Reachable
      <4>2. CASE blufi_sec' = NULL /\ UNCHANGED <<live, ses, btc>>
        BY <3>1, <3>3, <3>4, <4>2 DEF InHand, Reachable
      <4> QED
        BY <2>4, <3>4, <4>1, <4>2 DEF BleConnect
    <3>6. ~(conn /\ (sec_mode \/ phone.key # 0))
      BY <2>0, <3>3 DEF Served
    <3> QED
      BY <2>0, <3>1, <3>5, <3>6 DEF Sane, Served, Agrees, OnLine, NoFault
  <2>5. CASE BleDisconnect
    <3>1. /\ btc = "idle" /\ btcq # <<>> /\ Head(btcq).type = "disconnect"
          /\ UNCHANGED <<conn, sec_mode, phone, fault, blufi_sec, ses>>
      BY <2>5 DEF BleDisconnect, Ready, link
    <3>2. ~conn
      <4>1. Has(btcq, "disconnect")
        BY <3>1, TurnTaken DEF OneAtATime, TypeOK
      <4> QED
        BY <4>1 DEF OneAtATime
    <3>3. InHand'
      BY <2>0, <2>5, <3>1 DEF BleDisconnect, InHand, Reachable
    <3> QED
      BY <2>0, <3>1, <3>2, <3>3 DEF Sane, Served, Agrees, OnLine, NoFault
  <2>6. CASE InitMemset \/ DeinitClear \/ DeinitFree \/ DeinitNull
    <3>1. btc # "idle" /\ UNCHANGED <<conn, sec_mode, phone, fault>>
      BY <2>6 DEF InitMemset, DeinitClear, DeinitFree, DeinitNull, link
    <3>2. InHand'
      <4>1. CASE InitMemset \/ DeinitClear
        <5>1. ses'.dh_param = NULL /\ ses'.made
          BY <2>6, <4>1 DEF InitMemset, DeinitClear, Fresh
        <5> QED
          BY <2>0, <4>1, <5>1 DEF InitMemset, DeinitClear, InHand, Reachable
      <4>2. CASE DeinitFree
        BY <2>0, <4>2 DEF DeinitFree, InHand, Reachable
      <4>3. CASE DeinitNull
        BY <2>0, <4>3 DEF DeinitNull, InHand, Reachable
      <4> QED
        BY <2>6, <4>1, <4>2, <4>3
    <3>3. ~(conn /\ (sec_mode \/ phone.key # 0))
      BY <2>0, <3>1 DEF Served
    <3> QED
      BY <2>0, <3>1, <3>2, <3>3 DEF Sane, Served, Agrees, OnLine, NoFault
  <2>7. CASE ErrorReported \/ ReportSent
    <3>1. btc = "idle" /\ UNCHANGED <<live, blufi_sec, ses, btc, conn, sec_mode>>
      BY <2>7 DEF ErrorReported, ReportSent, TakeJob, Ready, memory, link
    <3>2. InHand'
      BY <2>0, <3>1, HandKept
    <3>4. phone'.key = phone.key \/ phone'.key = 0
      BY <2>7 DEF ErrorReported, ReportSent, NewPhone
    <3>5. conn /\ sec_mode => Sound
      BY <2>0, SessionThere DEF Served
    <3>6. fault' = "none"
      BY <2>0, <2>7, <3>5 DEF ErrorReported, ReportSent
    <3> QED
      BY <2>0, <3>1, <3>2, <3>4, <3>6 DEF Sane, Served, Agrees, OnLine, NoFault
  <2> QED
    BY <1>3, <2>1, <2>2, <2>3, <2>4, <2>5, <2>6, <2>7 DEF Link, Btc
<1> QED
  BY <1>1, <1>2, <1>3 DEF Next

LEMMA InvariantCorrect == Spec => [](TypeOK /\ OneAtATime /\ Sane)
<1>1. Init => OneAtATime /\ Sane
  <2> SUFFICES ASSUME Init PROVE OneAtATime /\ Sane
    OBVIOUS
  <2>1. DOMAIN btcq = {}
    BY DEF Init
  <2>2. OneAtATime
    BY <2>1 DEF Init, OneAtATime, InTurn, Has, NoTurn, Deinit
  <2>3. Sane
    BY DEF Init, Sane, InHand, Reachable, Served, Agrees, OnLine, Fresh, NewPhone, NoFault
  <2> QED
    BY <2>2, <2>3
<1>2. TypeOK /\ TypeOK' /\ OneAtATime /\ Sane /\ [Next]_vars => OneAtATime' /\ Sane'
  BY TurnStep, SaneStep DEF Sane
<1> QED
  BY <1>1, <1>2, TypeCorrect, PTL DEF Spec

\* A frame between malloc and memset of the session is the only way to memory that is
\* not the session's (blufi_security.c:72, 147, 164, 183-188).
THEOREM NoFaultCorrect == Spec => []NoFault
<1>1. Sane => NoFault
  BY DEF Sane
<1> QED
  BY <1>1, InvariantCorrect, PTL

\* The session code leaks nothing and frees nothing in use, over any number of
\* connections and negotiations (blufi_security.c:81-107, 183-213).
THEOREM HeapCorrect == Spec => []HeapExact
<1>1. Sane => HeapExact
  BY DEF Sane, HeapExact, InHand
<1> QED
  BY <1>1, InvariantCorrect, PTL

\* The device has the key that the phone took from its answer, unless the secret could
\* not be computed (blufi_security.c:115).
THEOREM KeysAgree == Spec => []KeyAgreement
<1>1. Sane => KeyAgreement
  <2> SUFFICES ASSUME Sane, phone.key # 0, ~silent PROVE ses.psk = phone.key /\ Sound
    BY DEF KeyAgreement
  <2>1. btc = "idle" /\ blufi_sec # NULL /\ ses.psk = phone.key
    BY DEF Sane, OnLine, Served, Agrees
  <2> QED
    BY <2>1, SessionThere DEF Sane
<1> QED
  BY <1>1, InvariantCorrect, PTL

---------------------------------------------------------------------------
(* The answer that a waiting phone gets.                                   *)

\* An error of the current connection is among the jobs of BTC.
ErrorWaits == \E i \in DOMAIN btcq : btcq[i].type = "error" /\ btcq[i].epoch = epoch

LEMMA ErrorPosted ==
    ASSUME TypeOK, ReportError, epoch' = epoch
    PROVE  ErrorWaits'
<1> DEFINE e == [type |-> "error", epoch |-> epoch]
<1>1. btcq' = Append(btcq, e) /\ btcq \in Seq(Job) /\ e \in Job
  BY DEF ReportError, Post, New, TypeOK, Job
<1>2. Len(btcq) + 1 \in DOMAIN btcq' /\ btcq'[Len(btcq) + 1] = e
  BY <1>1, AppendFacts
<1> QED
  BY <1>2 DEF ErrorWaits

LEMMA ErrorStays ==
    ASSUME TypeOK, ErrorWaits, epoch' = epoch,
           \/ UNCHANGED btcq
           \/ \E e \in Job : btcq' = Append(btcq, e)
           \/ btcq # <<>> /\ btcq' = Tail(btcq) /\ Head(btcq).type # "error"
           \/ /\ btcq # <<>> /\ Head(btcq).type # "error"
              /\ \E e \in Job : btcq' = Append(Tail(btcq), e)
    PROVE  ErrorWaits'
<1>0. btcq \in Seq(Job)
  BY DEF TypeOK
<1>1. PICK i \in DOMAIN btcq : btcq[i].type = "error" /\ btcq[i].epoch = epoch
  BY DEF ErrorWaits
<1>2. CASE UNCHANGED btcq
  BY <1>1, <1>2 DEF ErrorWaits
<1>3. CASE \E e \in Job : btcq' = Append(btcq, e)
  <2>1. PICK e \in Job : btcq' = Append(btcq, e)
    BY <1>3
  <2>2. i \in DOMAIN btcq' /\ btcq'[i] = btcq[i]
    BY <1>0, <2>1, AppendFacts
  <2> QED
    BY <1>1, <2>2 DEF ErrorWaits
<1>4. CASE btcq # <<>> /\ btcq' = Tail(btcq) /\ Head(btcq).type # "error"
  <2>1. i # 1 /\ i \in 1..Len(btcq) /\ Len(btcq) \in Nat
    BY <1>0, <1>1, <1>4, TailFacts
  <2>2. i - 1 \in DOMAIN btcq' /\ btcq'[i - 1] = btcq[i]
    BY <1>0, <1>4, <2>1, TailFacts
  <2> QED
    BY <1>1, <2>2 DEF ErrorWaits
<1>5. ASSUME NEW e \in Job, btcq # <<>>, Head(btcq).type # "error",
             btcq' = Append(Tail(btcq), e)
      PROVE  ErrorWaits'
  <2>1. i # 1 /\ i \in 1..Len(btcq) /\ Len(btcq) \in Nat /\ Tail(btcq) \in Seq(Job)
    BY <1>0, <1>1, <1>5, TailFacts
  <2>2. i - 1 \in DOMAIN Tail(btcq) /\ Tail(btcq)[i - 1] = btcq[i]
    BY <1>0, <1>5, <2>1, TailFacts
  <2>3. i - 1 \in DOMAIN btcq' /\ btcq'[i - 1] = btcq[i]
    BY <1>5, <2>1, <2>2, AppendFacts
  <2> QED
    BY <1>1, <2>3 DEF ErrorWaits
<1> QED
  BY <1>2, <1>3, <1>4, <1>5

\* A frame makes the phone wait only with an error on its way, or leaves it as it is.
LEMMA AnswerFrame ==
    ASSUME TypeOK, AnswerOnItsWay, Btu
    PROVE  AnswerOnItsWay'
<1> SUFFICES ASSUME phone'.step = "waiting", fault' = "none" PROVE conn' /\ ErrorWaits'
  BY DEF AnswerOnItsWay, ErrorWaits
<1>1. fault = "none" /\ conn /\ UNCHANGED <<conn, epoch>>
  BY DEF Btu, RecvParamLen, RecvParamData, RecvSecMode, RecvEncrypted, Frame, link
<1>2. Kind # "none"
  BY KindTyped
<1>3. ReportError \/ UNCHANGED <<phone, btcq>>
  <2>1. CASE RecvParamLen
    BY <1>2, <2>1 DEF RecvParamLen, Undefined
  <2>2. CASE RecvParamData
    <3>1. phone' # [step |-> "idle", key |-> neg]
      OBVIOUS
    <3> QED
      BY <1>2, <2>2, <3>1
      DEF RecvParamData, NotInitialised, ParamDataNoParam, ParamDataParam, ReadParamsFail,
          MakePublicFail, Undefined
  <2>3. CASE RecvSecMode \/ RecvEncrypted
    BY <1>2, <2>3 DEF RecvSecMode, RecvEncrypted, Undefined
  <2> QED
    BY <2>1, <2>2, <2>3 DEF Btu
<1>4. CASE ReportError
  BY <1>1, <1>4, ErrorPosted
<1>5. CASE UNCHANGED <<phone, btcq>>
  BY <1>1, <1>5, ErrorStays DEF AnswerOnItsWay, ErrorWaits
<1> QED
  BY <1>1, <1>3, <1>4, <1>5

LEMMA AnswerStep == TypeOK /\ AnswerOnItsWay /\ [Next]_vars => AnswerOnItsWay'
<1> SUFFICES ASSUME TypeOK, AnswerOnItsWay, [Next]_vars PROVE AnswerOnItsWay'
  OBVIOUS
<1>1. ASSUME UNCHANGED <<phone, conn, epoch>>, fault' = "none" => fault = "none",
             \/ UNCHANGED btcq
             \/ \E e \in Job : btcq' = Append(btcq, e)
             \/ btcq # <<>> /\ btcq' = Tail(btcq) /\ Head(btcq).type # "error"
             \/ /\ btcq # <<>> /\ Head(btcq).type # "error"
                /\ \E e \in Job : btcq' = Append(Tail(btcq), e)
      PROVE  AnswerOnItsWay'
  <2> SUFFICES ASSUME phone'.step = "waiting", fault' = "none" PROVE conn' /\ ErrorWaits'
    BY DEF AnswerOnItsWay, ErrorWaits
  <2>1. conn /\ ErrorWaits
    BY <1>1 DEF AnswerOnItsWay, ErrorWaits
  <2> QED
    BY <1>1, <2>1, ErrorStays
<1>2. CASE Link
  <2>1. phone'.step # "waiting"
    BY <1>2 DEF Link, LinkUp, LinkDown, NewPhone
  <2> QED
    BY <2>1 DEF AnswerOnItsWay
<1>3. CASE Btu
  BY <1>3, AnswerFrame
<1>4. CASE PostReport
  <2>1. New("report") \in Job
    BY NewTyped DEF Types
  <2> QED
    BY <1>1, <1>4, <2>1 DEF PostReport, Post, link
<1>5. CASE BleConnect \/ BleDisconnect \/ ReportSent \/ Advertise
  <2>1. btcq # <<>> /\ Head(btcq).type # "error" /\ fault = "none"
    BY <1>5 DEF BleConnect, BleDisconnect, ReportSent, Advertise, TakeJob, Ready
  <2>2. UNCHANGED <<phone, conn, epoch>>
    BY <1>5 DEF BleConnect, BleDisconnect, ReportSent, Advertise, link
  <2>3. New("start adv") \in Job /\ New("stop adv") \in Job
    BY NewTyped DEF Types
  <2>4. btcq' = Tail(btcq) \/ \E e \in Job : btcq' = Append(Tail(btcq), e)
    BY <1>5, <2>3 DEF BleConnect, BleDisconnect, ReportSent, Advertise, TakeJob
  <2> QED
    BY <1>1, <2>1, <2>2, <2>4
<1>6. CASE InitMemset \/ DeinitClear \/ DeinitFree \/ DeinitNull \/ UNCHANGED vars
  <2>1. UNCHANGED <<phone, conn, epoch, fault>>
    BY <1>6 DEF InitMemset, DeinitClear, DeinitFree, DeinitNull, vars, link
  <2>2. New("start adv") \in Job
    BY NewTyped DEF Types
  <2>3. UNCHANGED btcq \/ \E e \in Job : btcq' = Append(btcq, e)
    BY <1>6, <2>2 DEF InitMemset, DeinitClear, DeinitFree, DeinitNull, Post, vars
  <2> QED
    BY <1>1, <2>1, <2>3
<1>7. CASE ErrorReported
  <2>1. phone.step = "waiting" => conn
    BY <1>7 DEF ErrorReported, TakeJob, Ready, AnswerOnItsWay
  <2>2. phone'.step # "waiting"
    BY <1>7, <2>1 DEF ErrorReported, NewPhone
  <2> QED
    BY <2>2 DEF AnswerOnItsWay
<1> QED
  BY <1>2, <1>3, <1>4, <1>5, <1>6, <1>7 DEF Next, Btc

\* A phone that waits for the end of a negotiation is connected, and an error of its own
\* connection is on its way to it, also without a session (blufi_security.c:72-139):
\* the safety half of NegotiationAnswered.
THEOREM AnswerIsOnItsWay == Spec => []AnswerOnItsWay
<1>1. Init => AnswerOnItsWay
  BY DEF Init, NewPhone, AnswerOnItsWay
<1> QED
  BY <1>1, AnswerStep, TypeCorrect, PTL DEF Spec

\* A phone that waits gets its answer, or the error, if BTC gets to the end of its queue
\* again and again (blufi_security.c:72-139): NegotiationAnswered but for the scheduling.
THEOREM AnsweredOnceHandled == Spec /\ []<>(btcq = <<>>) => NegotiationAnswered
<1>1. AnswerOnItsWay /\ btcq = <<>> => phone.step # "waiting" \/ fault # "none"
  <2>1. btcq = <<>> => DOMAIN btcq = {}
    OBVIOUS
  <2> QED
    BY <2>1 DEF AnswerOnItsWay
<1> QED
  BY <1>1, AnswerIsOnItsWay, PTL DEF NegotiationAnswered
===========================================================================
