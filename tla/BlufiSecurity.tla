--------------------------- MODULE BlufiSecurity ---------------------------
(***************************************************************************)
(* The life of the BluFi security session: components/src/blufi_security.c *)
(* and the BLE_CONNECT, BLE_DISCONNECT and REPORT_ERROR cases of           *)
(* components/src/user_blufi.c.                                            *)
(*                                                                         *)
(* Two tasks of the Bluetooth host use the one pointer blufi_sec:          *)
(*   - BTU handles the frames the phone writes, at once and by itself: the *)
(*     negotiation handler and the decryption run in it, and it can        *)
(*     preempt BTC at any point (same core, higher priority);              *)
(*   - BTC handles, in the order they were posted, the jobs that follow    *)
(*     from BLE connections (blufi_security_init), disconnections          *)
(*     (blufi_security_deinit), errors to report, and reports to encrypt.  *)
(* BTU posts the connection jobs and goes on: nothing makes it wait for    *)
(* them, and the frames of a connection may come before its session.  The  *)
(* next connection waits for the advertising, which BTC starts again when  *)
(* the session of the last one is gone.                                    *)
(*                                                                         *)
(* Memory is a set of blocks; malloc may fail whenever it is called.  What *)
(* happens after a use of memory that is not the session's is not defined: *)
(* fault then says what went wrong and the model stops.                    *)
(***************************************************************************)
EXTENDS Naturals, Sequences

CONSTANTS
    Block,      \* memory blocks
    NULL,
    MaxConn,    \* bound: BLE connections
    MaxNeg,     \* bound: key negotiations
    MaxJobs     \* bound: reports and errors waiting for BTC

ASSUME NullAssumption == NULL \notin Block
ASSUME BoundAssumption == MaxConn \in Nat /\ MaxNeg \in Nat /\ MaxJobs \in Nat

VARIABLES
    live,        \* the blocks allocated by this code
    blufi_sec,   \* the session pointer
    ses,         \* what the session block holds, and for which connection
    btcq,        \* jobs waiting for BTC
    btc,         \* where BTC stands in init or deinit
    conn,        \* is a phone connected, for BTU?
    adv,         \* is the device advertising?
    epoch,       \* ghost: the number of the current or last connection
    sec_mode,    \* does the device encrypt what it sends?
    phone,       \* the phone: where it stands, the key it derived
    neg,         \* negotiations started; each has parameters of its own
    silent,      \* ghost: mbedtls_dhm_calc_secret failed in the last one
    fault        \* what went wrong with memory, or "none"

memory == <<live, blufi_sec, ses>>
link   == <<conn, adv, epoch, sec_mode>>
vars   == <<memory, btcq, btc, link, phone, neg, silent, fault>>

Key     == 0..MaxNeg      \* 0 is the key of a session without a secret
Pointer == Block \cup {NULL}
Session == [dh_param : Pointer, psk : Key, made : BOOLEAN]
Phone   == [step : {"idle", "sent_len", "waiting"}, key : Key]
Job     == [type : {"connect", "disconnect", "start adv", "stop adv", "error", "report"},
            epoch : 0..MaxConn]

NewPhone == [step |-> "idle", key |-> 0]

\* What malloc returned, before memset: nothing in it means anything.
Raw        == [dh_param |-> NULL, psk |-> 0, made |-> FALSE]
FreshUnset == [dh_param |-> "garbage", psk |-> 0, made |-> TRUE]   \* mutant: no dh_param
Fresh      == [dh_param |-> NULL, psk |-> 0, made |-> TRUE]

Init ==
    /\ live = {} /\ blufi_sec = NULL /\ ses = Fresh
    /\ btcq = <<>> /\ btc = "idle"
    /\ conn = FALSE /\ adv = TRUE /\ epoch = 0 /\ sec_mode = FALSE
    /\ phone = NewPhone /\ neg = 0 /\ silent = FALSE
    /\ fault = "none"

\* A job for BTC, posted during the current connection.
New(type)  == [type |-> type, epoch |-> epoch]
Post(type) == btcq' = Append(btcq, New(type))

---------------------------------------------------------------------------
(* The BLE link, as BTU learns of it.                                      *)

\* The controller does not advertise on a link.
LinkUp ==
    /\ fault = "none" /\ adv /\ ~conn /\ epoch < MaxConn
    /\ conn' = TRUE /\ adv' = FALSE /\ epoch' = epoch + 1
    /\ sec_mode' = FALSE
    /\ btcq' = Append(btcq, [type |-> "connect", epoch |-> epoch'])
    /\ phone' = NewPhone
    /\ UNCHANGED <<memory, btc, neg, silent, fault>>

LinkDown ==
    /\ fault = "none" /\ conn
    /\ conn' = FALSE
    /\ UNCHANGED <<adv, epoch>> /\ Post("disconnect")
    /\ phone' = NewPhone
    /\ UNCHANGED <<memory, btc, sec_mode, neg, silent, fault>>

---------------------------------------------------------------------------
(* Frames of the phone, in BTU.                                            *)

Frame == fault = "none" /\ conn

\* The session memory can be used: it is allocated and was initialised.
Sound == blufi_sec \in live /\ ses.made

\* ... and so can its parameter buffer, which deinit frees before it resets dh_param.
BufferSound == Sound /\ ses.dh_param \in live \cup {NULL}

\* The phone hears of errors through a job of BTC (btc_blufi_report_error).
ReportError ==
    /\ Len(btcq) < MaxJobs
    /\ Post("error")

\* What is wrong with the memory that was used.
Kind == IF blufi_sec = NULL THEN "null"
        ELSE IF ~ses.made THEN "uninitialised" ELSE "dangling"

\* The frame used memory it should not have: the rest is undefined.
Undefined ==
    /\ fault' = Kind
    /\ UNCHANGED <<live, ses, btcq, phone, neg, silent>>

\* "BLUFI Security is not initialized".
NotInitialised ==
    /\ blufi_sec = NULL
    /\ ReportError
    /\ UNCHANGED <<live, ses, fault>>

\* The old buffer is freed before the new one is asked for.
ParamLenKeep ==        \* mutant: the old buffer is overwritten, not freed
    /\ BufferSound
    /\ LET rest == live IN
       \/ \E b \in Block \ rest : /\ live' = rest \cup {b}
                                  /\ ses' = [ses EXCEPT !.dh_param = b]
                                  /\ UNCHANGED btcq
       \/ /\ live' = rest /\ ses' = [ses EXCEPT !.dh_param = NULL]
          /\ ReportError
    /\ UNCHANGED fault

ParamLen ==
    /\ BufferSound
    /\ LET rest == live \ {ses.dh_param} IN
       \/ \E b \in Block \ rest : /\ live' = rest \cup {b}
                                  /\ ses' = [ses EXCEPT !.dh_param = b]
                                  /\ UNCHANGED btcq
       \/ /\ live' = rest /\ ses' = [ses EXCEPT !.dh_param = NULL]
          /\ ReportError
    /\ UNCHANGED fault

RecvParamLen ==
    /\ Frame /\ neg < MaxNeg
    /\ UNCHANGED <<blufi_sec, btc, link>>
    /\ \/ /\ (NotInitialised \/ ParamLen)
          /\ phone' = [step |-> "sent_len", key |-> 0]
          /\ neg' = neg + 1
          /\ UNCHANGED silent
       \/ /\ blufi_sec # NULL /\ ~BufferSound
          /\ Undefined

ReadParamsFailQuiet == \* mutant: returns without an error
    UNCHANGED <<live, ses, btcq>>

\* Parameters that cannot be read stay allocated: the next PARAM_LEN, or deinit,
\* frees them.
ReadParamsFail ==
    /\ ReportError
    /\ UNCHANGED <<live, ses>>

MakePublicFail ==
    /\ live' = live \ {ses.dh_param}
    /\ ses' = [ses EXCEPT !.dh_param = NULL]
    /\ ReportError

\* The secret, its MD5 and the AES key; the public key is the answer. The result of
\* mbedtls_dhm_calc_secret is not looked at.
Derived(key) ==
    /\ live' = live \ {ses.dh_param}
    /\ ses' = [ses EXCEPT !.dh_param = NULL, !.psk = key]
    /\ UNCHANGED btcq

ParamDataNoParam ==
    /\ ses.dh_param = NULL
    /\ ReportError
    /\ phone' = [phone EXCEPT !.step = "waiting"]
    /\ UNCHANGED <<live, ses, silent>>

ParamDataParamStale == \* mutant: the AES key is not set from the new secret
    /\ ses.dh_param # NULL
    /\ \/ /\ ReadParamsFail \/ MakePublicFail
          /\ phone' = [phone EXCEPT !.step = "waiting"]
          /\ UNCHANGED silent
       \/ /\ Derived(ses.psk) /\ silent' = FALSE
          /\ phone' = [step |-> "idle", key |-> neg]
       \/ /\ Derived(0) /\ silent' = TRUE
          /\ phone' = [step |-> "idle", key |-> neg]

ParamDataParam ==
    /\ ses.dh_param # NULL
    /\ \/ /\ ReadParamsFail \/ MakePublicFail
          /\ phone' = [phone EXCEPT !.step = "waiting"]
          /\ UNCHANGED silent
       \/ /\ Derived(neg) /\ silent' = FALSE
          /\ phone' = [step |-> "idle", key |-> neg]
       \/ /\ Derived(0) /\ silent' = TRUE
          /\ phone' = [step |-> "idle", key |-> neg]

RecvParamData ==
    /\ Frame /\ phone.step = "sent_len"
    /\ UNCHANGED <<blufi_sec, btc, link, neg>>
    /\ \/ /\ NotInitialised
          /\ phone' = [phone EXCEPT !.step = "waiting"]
          /\ UNCHANGED silent
       \/ /\ BufferSound /\ (ParamDataNoParam \/ ParamDataParam)
          /\ UNCHANGED fault
       \/ /\ blufi_sec # NULL /\ ~BufferSound
          /\ Undefined

\* The phone asks for encryption once it has a key.
RecvSecMode ==
    /\ Frame /\ phone.step = "idle" /\ phone.key # 0 /\ ~sec_mode
    /\ sec_mode' = TRUE
    /\ UNCHANGED <<memory, btcq, btc, conn, adv, epoch, phone, neg, silent, fault>>

\* blufi_aes_decrypt uses the session without a look at the pointer.
RecvEncrypted ==
    /\ Frame /\ phone.step = "idle" /\ phone.key # 0 /\ sec_mode
    /\ \/ /\ Sound
          /\ UNCHANGED <<live, ses, btcq, phone, neg, silent, fault>>
       \/ /\ ~Sound
          /\ Undefined
    /\ UNCHANGED <<blufi_sec, btc, link>>

\* Another task asks for a report to the phone (user_blufi.c, wifi events).
PostReport ==
    /\ fault = "none" /\ Len(btcq) < MaxJobs
    /\ UNCHANGED link /\ Post("report")
    /\ UNCHANGED <<memory, btc, phone, neg, silent, fault>>

---------------------------------------------------------------------------
(* Jobs of BTC.                                                            *)

Ready(type)   == /\ fault = "none" /\ btc = "idle"
                 /\ btcq # <<>> /\ Head(btcq).type = type
TakeJob(type) == Ready(type) /\ btcq' = Tail(btcq)

\* esp_blufi_adv_stop, a job for BTC itself, and blufi_security_init up to malloc; its
\* ESP_FAIL is ignored.
BleConnect ==
    /\ Ready("connect")
    /\ btcq' = Append(Tail(btcq), New("stop adv"))
    /\ \/ \E b \in Block \ live :
             /\ live' = live \cup {b}
             /\ blufi_sec' = b
             /\ ses' = Raw
             /\ btc' = "memset"
       \/ /\ blufi_sec' = NULL
          /\ UNCHANGED <<live, ses, btc>>
    /\ UNCHANGED <<link, phone, neg, silent, fault>>

InitNoMemset ==        \* mutant: the memory is used as malloc returns it
    /\ fault = "none" /\ btc = "memset"
    /\ btc' = "idle"
    /\ UNCHANGED <<memory, btcq, link, phone, neg, silent, fault>>

InitMemset ==
    /\ fault = "none" /\ btc = "memset"
    /\ ses' = Fresh
    /\ btc' = "idle"
    /\ UNCHANGED <<live, blufi_sec, btcq, link, phone, neg, silent, fault>>

\* blufi_security_deinit: nothing to do but to advertise again, or free(dh_param) ...
BleDisconnect ==
    /\ Ready("disconnect")
    /\ \/ /\ blufi_sec = NULL
          /\ btcq' = Append(Tail(btcq), New("start adv"))
          /\ UNCHANGED <<live, btc>>
       \/ /\ blufi_sec # NULL
          /\ btcq' = Tail(btcq)
          /\ live' = live \ {ses.dh_param}
          /\ btc' = "clear"
    /\ UNCHANGED <<blufi_sec, ses, link, phone, neg, silent, fault>>

\* ... dh_param = NULL, and the mbedtls contexts and the memory cleared ...
DeinitClear ==
    /\ fault = "none" /\ btc = "clear"
    /\ ses' = Fresh
    /\ btc' = "free"
    /\ UNCHANGED <<live, blufi_sec, btcq, link, phone, neg, silent, fault>>

\* ... free(blufi_sec) ...
DeinitFree ==
    /\ fault = "none" /\ btc = "free"
    /\ live' = live \ {blufi_sec}
    /\ btc' = "null"
    /\ UNCHANGED <<blufi_sec, ses, btcq, link, phone, neg, silent, fault>>

\* ... blufi_sec = NULL, and esp_blufi_adv_start.
DeinitNull ==
    /\ fault = "none" /\ btc = "null"
    /\ blufi_sec' = NULL
    /\ btc' = "idle"
    /\ Post("start adv")
    /\ UNCHANGED <<live, ses, link, phone, neg, silent, fault>>

\* BTC comes to its own jobs for the advertising.
Advertise ==
    /\ \/ TakeJob("start adv") /\ adv' = TRUE
       \/ TakeJob("stop adv") /\ adv' = FALSE
    /\ UNCHANGED <<memory, btc, conn, epoch, sec_mode, phone, neg, silent, fault>>

\* esp_blufi_send_error_info: the phone, if there is one, may give up waiting.
ErrorReported ==
    /\ TakeJob("error")
    /\ phone' = IF conn /\ phone.step = "waiting" THEN NewPhone ELSE phone
    /\ UNCHANGED <<memory, btc, link, neg, silent, fault>>

\* A report is sent while there is a phone, encrypted if it asked for that.
ReportSent ==
    /\ TakeJob("report")
    /\ fault' = IF conn /\ sec_mode /\ ~Sound THEN Kind ELSE "none"
    /\ UNCHANGED <<memory, btc, link, phone, neg, silent>>

---------------------------------------------------------------------------
Link  == LinkUp \/ LinkDown
Btu   == RecvParamLen \/ RecvParamData \/ RecvSecMode \/ RecvEncrypted
Btc   == \/ BleConnect \/ InitMemset
         \/ BleDisconnect \/ DeinitClear \/ DeinitFree \/ DeinitNull \/ Advertise
         \/ ErrorReported \/ ReportSent

Next == Link \/ Btu \/ PostReport \/ Btc

Spec == Init /\ [][Next]_vars

\* BTC keeps working through its queue.
FairSpec == Spec /\ WF_vars(Btc)

---------------------------------------------------------------------------
TypeOK ==
    /\ live \subseteq Block /\ blufi_sec \in Pointer /\ ses \in Session
    /\ btcq \in Seq(Job)
    /\ btc \in {"idle", "memset", "clear", "free", "null"}
    /\ conn \in BOOLEAN /\ adv \in BOOLEAN /\ epoch \in 0..MaxConn /\ sec_mode \in BOOLEAN
    /\ phone \in Phone /\ neg \in 0..MaxNeg /\ silent \in BOOLEAN
    /\ fault \in {"none", "null", "dangling", "uninitialised"}

\* One way only leads to memory that is not a session: a frame that BTU handles while
\* BTC is between malloc and memset of blufi_security_init (blufi_security.c:183-188).
\* Frames that come before that, after a failed allocation, and reports that BTC encrypts
\* late never do, although encryption and decryption do not look at blufi_sec (147, 164).
NoFault == fault = "none" \/ (fault = "uninitialised" /\ btc = "memset" /\ conn)

\* The blocks that the code can still reach and free.
Reachable ==
    ((IF btc = "null" THEN {} ELSE {blufi_sec})
       \cup (IF btc = "clear" THEN {} ELSE {ses.dh_param})) \ {NULL}

\* Nothing is leaked and nothing is freed that is still pointed to: the allocated blocks
\* are those of the pointers, whatever the phone sends, resends and leaves unfinished
\* over its connections (blufi_security.c:81-107, 183-213).
HeapExact == live = Reachable

\* When a phone takes a key from the device's answer, the device has that key, until the
\* phone starts over or leaves; the exception is a secret that could not be computed,
\* which blufi_security.c:115 does not look at.
KeyAgreement == (phone.key # 0 /\ ~silent) => ses.psk = phone.key /\ Sound

\* A phone that waits for the end of a negotiation is still connected, and an error of
\* its own connection is on its way to it, on every exit of the handler that has no
\* answer, also without a session (blufi_security.c:72-139).
AnswerOnItsWay ==
    (phone.step = "waiting" /\ fault = "none") =>
        conn /\ \E i \in DOMAIN btcq : btcq[i].type = "error" /\ btcq[i].epoch = epoch

\* A phone that waits for the end of a negotiation gets an answer or an error, unless
\* the device is lost.
NegotiationAnswered ==
    phone.step = "waiting" ~> (phone.step # "waiting" \/ fault # "none")

\* "BLUFI Security is not initialized" (blufi_security.c:72-76): a frame that arrives
\* before the session of its connection is initialised is answered with that error; its
\* handler does not touch the session.
EarlyFrameRefused == fault # "uninitialised"
===========================================================================
