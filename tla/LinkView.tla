------------------------------ MODULE LinkView ------------------------------
(***************************************************************************)
(* What the station promises to whoever asks it for its network: an        *)
(* observer that hears of every change of the link, in order and late,     *)
(* through a queue that also carries other news.  No task, no driver, no   *)
(* phone; BlufiStation implements it with the handlers of                  *)
(* components/src/user_blufi.c.                                            *)
(***************************************************************************)
EXTENDS Sequences

CONSTANTS
    Value,     \* what there is to say about the link
    Down,      \* ... when there is none
    OtherNews

VARIABLES
    now,       \* the link
    news,      \* what the observer has still to hear
    known      \* what it believes

vars == <<now, news, known>>

Start == now = Down /\ known = Down /\ news \in Seq({OtherNews})

\* A change, or an attempt at one that failed.
Change(v) == now' = v /\ news' = Append(news, v) /\ UNCHANGED known

Mention == news' = Append(news, OtherNews) /\ UNCHANGED <<now, known>>

Hear ==
    /\ news # <<>>
    /\ news' = Tail(news)
    /\ known' = IF Head(news) = OtherNews THEN known ELSE Head(news)
    /\ UNCHANGED now

Restart == now' = Down /\ known' = Down /\ news' \in Seq({OtherNews})

Next == (\E v \in Value : Change(v)) \/ Mention \/ Hear \/ Restart

Spec == Start /\ [][Next]_vars

\* The observer comes to believe what stays true.
CatchesUp == \A v \in Value : <>[](now = v) => <>[](known = v)
=============================================================================
