------------------------------ MODULE Fetching ------------------------------
(***************************************************************************)
(* What a caller of the download cache is promised, without the cache: no  *)
(* files, no metadata, no conditional requests.                            *)
(*                                                                         *)
(* A publisher changes the body behind a URL whenever it likes.  A caller  *)
(* asks for a URL, and is handed the SHA-256 of a body or an error.  A     *)
(* revalidating caller gets a body that was current at some moment between *)
(* its call and its return; an offline or offline-first caller gets a body *)
(* that was current at some moment; a caller that pins a digest gets that  *)
(* body or an error.                                                       *)
(*                                                                         *)
(* DownloadCache.tla implements this module.                               *)
(***************************************************************************)
CONSTANTS Callers, Urls, Bodies, Pins, Sha256, None

VARIABLES
    content,    \* the body behind each URL now
    served,     \* every body there has ever been behind each URL
    window,     \* per caller: the bodies behind its URL since it called
    ask,        \* per caller: what it asked for
    answer      \* per caller: "idle", "pending", "failed", or the digest it got

vars == <<content, served, window, ask, answer>>

Modes == {"revalidate", "offline", "offline_first"}

Asks == [url : Urls, mode : Modes, pin : Pins]
NoAsk == [url |-> None, mode |-> "offline", pin |-> None]

Init ==
    /\ content \in [Urls -> Bodies]
    /\ served = [u \in Urls |-> {content[u]}]
    /\ window = [c \in Callers |-> {}]
    /\ ask = [c \in Callers |-> NoAsk]
    /\ answer = [c \in Callers |-> "idle"]

\* The publisher replaces the body behind u.
Publish(u) ==
    /\ \E b \in Bodies :
        /\ content' = [content EXCEPT ![u] = b]
        /\ served' = [served EXCEPT ![u] = @ \cup {b}]
        /\ window' = [c \in Callers |->
              IF answer[c] = "pending" /\ ask[c].url = u
              THEN window[c] \cup {b} ELSE window[c]]
    /\ UNCHANGED <<ask, answer>>

Ask(c) ==
    /\ answer[c] # "pending"
    /\ \E a \in Asks :
        /\ ask' = [ask EXCEPT ![c] = a]
        /\ window' = [window EXCEPT ![c] = {content[a.url]}]
    /\ answer' = [answer EXCEPT ![c] = "pending"]
    /\ UNCHANGED <<content, served>>

\* The bodies caller c may be handed.
Acceptable(c) ==
    {b \in IF ask[c].mode = "revalidate" THEN window[c] ELSE served[ask[c].url] :
        ask[c].pin \in {None, Sha256[b]}}

Deliver(c) ==
    /\ answer[c] = "pending"
    /\ \E b \in Acceptable(c) : answer' = [answer EXCEPT ![c] = Sha256[b]]
    /\ UNCHANGED <<content, served, window, ask>>

\* An exception, or the end of the caller's process.
Fail(c) ==
    /\ answer[c] = "pending"
    /\ answer' = [answer EXCEPT ![c] = "failed"]
    /\ UNCHANGED <<content, served, window, ask>>

Next ==
    \/ \E u \in Urls : Publish(u)
    \/ \E c \in Callers : Ask(c) \/ Deliver(c) \/ Fail(c)

Spec == Init /\ [][Next]_vars
=============================================================================
