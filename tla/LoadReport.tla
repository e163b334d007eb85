------------------------------- MODULE LoadReport -------------------------------
(***************************************************************************)
(* The limit on the outgoing rate: flow_grab counts the bytes that leave   *)
(* (core/flow_grab.cpp), codgram compares the count with that of its last  *)
(* report and closes the acceptors for the time to the next one when the   *)
(* rate is at the limit (core/codgram.cpp).  A reload changes the limit    *)
(* and the interval, but not the timer (core/main.cpp, core/config.cpp).   *)
(*                                                                         *)
(* What a report says besides is left out, and so is the rounding of its   *)
(* ratio, which counts for limits of a million and more.                   *)
(***************************************************************************)
EXTENDS Naturals

CONSTANTS Width,      \* the counter's values: 2^64 in the code
          Kilo,       \* bytes of a KB
          Limits,     \* limit_rate_, 0 for none
          Intervals   \* interval_report_

ASSUME LoadAssumption == /\ Width \in Nat \ {0} /\ Kilo \in Nat \ {0}
                         /\ Limits \subseteq Nat /\ Intervals \subseteq Nat \ {0}

VARIABLE load

\* out is obytes_, which counts while `capture` runs, and last last_out_flow_;
\* timer is the interval between reports.  For the properties: `first` until a
\* report has been made, `period` the bytes since then.
Load == [capture : BOOLEAN, out : 0..(Width - 1), last : 0..(Width - 1),
         limit : Limits, interval : Intervals, timer : Intervals,
         accept : BOOLEAN, first : BOOLEAN, period : 0..(Width - 1)]

\* Nobody sets last_out_flow_.  The capture also runs for a limit on the flow.
LoadInit == load \in {l \in Load : /\ l.out = 0 /\ l.period = 0
                                   /\ l.accept /\ l.first
                                   /\ l.interval = l.timer
                                   /\ l.limit > 0 => l.capture}

\* handle_packet, with n bytes.  The bound: less than the counter holds goes
\* out between two reports.
Packet(n) ==
  /\ load.period + n < Width
  /\ load' = [load EXCEPT !.out = IF load.capture THEN (@ + n) % Width ELSE @,
                          !.period = @ + n]

\* SIGHUP
Reload == \E limit \in Limits, interval \in Intervals :
            load' = [load EXCEPT !.limit = limit, !.interval = interval]

\* get_left_rate_ratio: the rate, and whether anything is left.
Rate == LET bytes == IF load.last <= load.out THEN load.out - load.last
                     ELSE (Width - 1) - (load.last - load.out)
        IN bytes \div (load.interval * Kilo)

SomeLeft == load.limit = 0 \/ Rate < load.limit

\* Slip: the count is kept once, at the first report.
ReportFromFirst ==
  load' = [load EXCEPT !.last = IF load.first THEN load.out ELSE @,
                       !.accept = SomeLeft, !.first = FALSE, !.period = 0]

\* codgram::handle_timeout
Report ==
  load' = [load EXCEPT !.last = load.out, !.accept = SomeLeft,
                       !.first = FALSE, !.period = 0]

LoadNext == Report \/ Reload \/ \E n \in 1..(Width - 1) : Packet(n)

LoadSpec == LoadInit /\ [][LoadNext]_load

-----------------------------------------------------------------------------
(* Properties *)

LoadTypeOK == load \in Load

\* codgram::handle_timeout: connections are accepted after a report exactly
\* when less than the limit has gone out since the last one, as the timer
\* measures it.  Not so at the first report, after a reload of the interval,
\* and without a capture, which a limit that is reloaded does not start.
\* When the counter has wrapped around it is one byte short.
AcceptFollowsRate ==
  [][load'.period < load.period \/ load'.accept # load.accept =>
       LET byte == IF load.out < load.last THEN 1 ELSE 0
           rate == (load.period - byte) \div (load.timer * Kilo)
       IN \/ load.first \/ load.interval # load.timer \/ ~load.capture
          \/ load'.accept = (load.limit = 0 \/ rate < load.limit)]_load
=============================================================================
