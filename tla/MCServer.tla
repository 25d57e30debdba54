------------------------------ MODULE MCServer ------------------------------
(* The script server, one part at a time: a behaviour is one of its threads, *)
(* connections and descriptors (SocketServer) or of what goes over one       *)
(* connection (ScriptProtocol), while the other stays as it is.              *)
EXTENDS SocketServer

VARIABLES
    part,
    sent, out, line, at, msg, ran, said, back, data, printed

Protocol == INSTANCE MCScriptProtocol WITH
    Sources <- {<<>>, <<97>>, <<195, 191>>, <<97, 195, 169>>, <<97, 98, 195, 191>>},
    Raws <- {<<>>, <<97, 98>>}, Results <- {<<>>, <<34, 10, 92>>, <<31>>},
    Casts <- {<<99>>}, BufSize <- 4, RecvSize <- 5, MaxLines <- 2, MaxCasts <- 1, pc <- at

wire == <<sent, out, line, at, msg, ran, said, back, data, printed>>

ServerInit == part \in {"sockets", "wire"} /\ Init /\ Protocol!Init

ServerNext ==
    /\ UNCHANGED part
    /\ \/ part = "sockets" /\ Next /\ UNCHANGED wire
       \/ part = "wire" /\ Protocol!Next /\ UNCHANGED vars

\* With the fairness of the server, in the behaviours that are its own.
ServerSpec ==
    /\ ServerInit /\ [][ServerNext]_<<part, vars, wire>>
    /\ WF_vars(part = "sockets" /\ Loop)
    /\ \A t \in Threads : WF_vars(part = "sockets" /\ Runs(t))
-----------------------------------------------------------------------------
\* However recv cuts the stream, handle_client runs the lines whole, in order
\* and once, and leaves none behind.
LinesWhole == Protocol!LinesWhole

\* calvin.py prints the result of its script, whatever characters are in it.
PrintsResult == Protocol!PrintsResult
=============================================================================
