-------------------------------- MODULE MCParts --------------------------------
(***************************************************************************)
(* The parts of the server that share no state with one another, or only   *)
(* what the module that needs it models itself, checked in one run: the    *)
(* timing wheel of a worker, the pipes between threads, a TLS connection,  *)
(* the memory pools, the life of the server, the reading of a message      *)
(* header and of its URI, the limit on the rate.  A behaviour is one of    *)
(* one part; the variables of the others stay as they were.  The           *)
(* properties are those of the parts.                                      *)
(***************************************************************************)
EXTENDS Wheel, WorkerPipe, TlsConn, BasicPool, Server, HttpParser, RequestUri,
        LoadReport

VARIABLE part

Parting == {"wheel", "tls", "pool", "server", "parser", "pipe", "uri", "load"}
partsVars == <<part, wheelVars, tlsVars, poolVars, serverVars, parserVars,
               pipeVars, id, load>>

Init == /\ part \in Parting
        /\ WheelInit /\ TlsInit /\ PoolInit /\ ServerInit /\ ParserInit
        /\ PipeInit /\ UriInit /\ LoadInit
        \* the configuration matters to the server alone
        /\ part # "server" => conf.p2p /\ conf.disp /\ conf.limit
        \* and what the counter was to the load report
        /\ part # "load" => load.last = 0 /\ load.timer = 1 /\ ~load.capture

Next ==
  \/ /\ part = "wheel" /\ WheelNext
     /\ UNCHANGED <<part, tlsVars, poolVars, serverVars, parserVars, pipeVars, id, load>>
  \/ /\ part = "tls" /\ TlsNext
     /\ UNCHANGED <<part, wheelVars, poolVars, serverVars, parserVars, pipeVars, id, load>>
  \/ /\ part = "pool" /\ PoolNext
     /\ UNCHANGED <<part, wheelVars, tlsVars, serverVars, parserVars, pipeVars, id, load>>
  \/ /\ part = "server" /\ ServerNext
     /\ UNCHANGED <<part, wheelVars, tlsVars, poolVars, parserVars, pipeVars, id, load>>
  \/ /\ part = "parser" /\ ParserNext
     /\ UNCHANGED <<part, wheelVars, tlsVars, poolVars, serverVars, pipeVars, id, load>>
  \/ /\ part = "pipe" /\ PipeNext
     /\ UNCHANGED <<part, wheelVars, tlsVars, poolVars, serverVars, parserVars, id, load>>
  \/ /\ part = "uri" /\ UriNext
     /\ UNCHANGED <<part, wheelVars, tlsVars, poolVars, serverVars, parserVars, pipeVars, load>>
  \/ /\ part = "load" /\ LoadNext
     /\ UNCHANGED <<part, wheelVars, tlsVars, poolVars, serverVars, parserVars, pipeVars, id>>

\* Of what the other parts do nothing need come.
Spec == Init /\ [][Next]_partsVars /\ PipeFairness

\* What every part keeps in its variables has the type the code gives it.
TypeOK == /\ WheelTypeOK /\ TlsTypeOK /\ PoolTypeOK /\ ServerTypeOK
          /\ ParserTypeOK /\ PipeTypeOK /\ UriTypeOK /\ LoadTypeOK
================================================================================
