--------------------------- MODULE ConnMatchLive ---------------------------
(***************************************************************************)
(* What must come about in ConnMatch.                                      *)
(*                                                                         *)
(* Every further request of a waiting client starts its timer anew         *)
(* (request_new_server: event_del, evtimer_add), so that a client which    *)
(* asks again before timeout_respond is over, and never stops, may wait    *)
(* for ever.  Whether it stops is the client's business: silent holds the  *)
(* waiting clients that ask no more as long as they wait.                  *)
(***************************************************************************)
EXTENDS ConnMatch

VARIABLE silent

liveVars == <<vars, silent>>

LiveInit == Init /\ silent = {}

\* What waiting client c has sent is all it sends before it is answered.
FallSilent(c) == /\ fault = "none"
                 /\ conn[c].phase = "live" /\ conn[c].tmo
                 /\ c \notin silent
                 /\ silent' = silent \cup {c}
                 /\ UNCHANGED vars

\* A step of ConnMatch in which no silent client asks.
Step == \/ \E c \in Conns, w \in Workers : Dispatch(c, w)
        \/ StopConnector
        \/ \E w \in Workers : Worker(w)
        \/ \E w \in Workers, c \in Conns \ silent : Requests(w, c)
        \/ \E w \in Workers, c \in Conns : Happens(w, c)
        \/ Halted

LiveNext == \/ \E c \in Conns : FallSilent(c)
            \/ Step /\ silent' = {c \in silent : conn'[c].tmo}

(***************************************************************************)
(* Fairness.  A worker's event loop ends the handler it is in and serves   *)
(* its pipe (a worker in a handler comes back to the loop, so the pipe is  *)
(* served although it is not served continuously: strong fairness).  It    *)
(* runs every timer that has expired, and a timer expires when nothing     *)
(* starts it anew: the timers of clients that are not silent need not.     *)
(***************************************************************************)
Fairness ==
  \A w \in Workers :
    /\ WF_vars(FinishAdd(w) \/ Resume(w))
    /\ SF_vars(TakeAdd(w) \/ TakeMatch(w))
    /\ \A c \in Conns : SF_vars(c \in silent /\ Timeout(w, c))

FairSpec == LiveInit /\ [][LiveNext]_liveVars /\ Fairness
-----------------------------------------------------------------------------
\* A server that is handed over arrives (notify_match_conn).
HandOverArrives ==
  \A c \in Conns : conn[c].phase = "moving"
                     ~> conn[c].phase # "moving" \/ fault # "none"

\* The wait of a client that does not go on asking ends, whatever the others
\* ask: it is paired, told that nobody answered in time (handle_timeout),
\* gone, or has lost its requests to a server that died during the match
\* (match(conn,true) stops the timer before it sends).
WaitingEnds ==
  \A c \in Conns :
    c \in silent /\ conn[c].type = "CLIENT" /\ ~conn[c].closing
      ~> ~conn[c].tmo \/ conn[c].closing \/ fault # "none"
=============================================================================
