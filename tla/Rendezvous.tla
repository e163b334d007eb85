----------------------------- MODULE Rendezvous -----------------------------
(***************************************************************************)
(* What a client and a device may rely on when nti_proxy brings them       *)
(* together: who asks for a device meets one end that speaks for it, or    *)
(* nobody; an end that has served a client never serves another one; and   *)
(* nobody is left to talk to an end that is gone.                          *)
(***************************************************************************)
CONSTANTS Ends,      \* the sockets of clients and devices
          Devs,      \* devices
          NoDev,     \* no device
          Nobody     \* no other end

VARIABLE end         \* what each end is to the others

(***************************************************************************)
(* An end asks for a device, or has declared to speak for one: it is idle  *)
(* until it has met a client, and busy from then on.                       *)
(***************************************************************************)
Out == [role |-> "out", dev |-> NoDev, with |-> Nobody]
Client(s) == [role |-> "client", dev |-> NoDev, with |-> s]
Asking(d) == [role |-> "asking", dev |-> d, with |-> Nobody]
Idle(d) == [role |-> "idle", dev |-> d, with |-> Nobody]
Busy(d, c) == [role |-> "busy", dev |-> d, with |-> c]

\* The ends S go away; who talked to one of them is alone.
Without(S) == [x \in Ends |-> IF x \in S THEN Out
                              ELSE IF end[x].with \in S \ {Nobody}
                                   THEN [end[x] EXCEPT !.with = Nobody]
                                   ELSE end[x]]

Init == end = [x \in Ends |-> Out]

Come(x) == /\ end[x].role = "out"
           /\ end' = [end EXCEPT ![x] = Client(Nobody)]

\* A client asks for a device, or may not ask: its server is dismissed.
Ask(c) == /\ end[c].role \in {"client", "asking"}
          /\ \E now \in {Client(Nobody)} \cup {Asking(d) : d \in Devs} :
               end' = [Without({end[c].with}) EXCEPT ![c] = now]

\* An end turns out to be a device's, whatever it asked for before.
Offer(s, d) == /\ end[s].role \in {"client", "asking"} /\ end[s].with = Nobody
               /\ end' = [end EXCEPT ![s] = Idle(d)]

\* s may be given to c: c asks, and s is of that device and has served nobody.
Suits(c, s) == /\ end[c].role = "asking" /\ s # c
               /\ end[s].with = Nobody
               /\ \/ end[s].role = "idle" /\ end[s].dev = end[c].dev
                  \/ end[s].role \in {"client", "asking"}

Meet(c, s) == /\ Suits(c, s)
              /\ end' = [end EXCEPT ![c] = Client(s),
                                    ![s] = Busy(end[c].dev, c)]

\* s is lost when it meets c; c has asked in vain, or is lost too.
Miss(c, s) == /\ Suits(c, s)
              /\ \E left \in {Client(Nobody), Out} :
                   end' = [end EXCEPT ![c] = left, ![s] = Out]

\* An end goes, alone or with the one it talks to.
Leave(x) == /\ end[x].role # "out"
            /\ \E S \in {{x}, {x, end[x].with}} : end' = Without(S)

Next == \E x \in Ends : \/ Come(x) \/ Ask(x) \/ Leave(x)
                        \/ \E d \in Devs : Offer(x, d)
                        \/ \E s \in Ends : Meet(x, s) \/ Miss(x, s)

Spec == Init /\ [][Next]_end
=============================================================================
