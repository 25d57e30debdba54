--------------------------- MODULE ScriptProtocol ---------------------------
(***************************************************************************)
(* What travels on one connection to the script server: the lines a client *)
(* sends (calvin.py, or raw JavaScript), the pieces recv hands to          *)
(* handle_client, the script it makes of a line, and the answers.          *)
(*                                                                         *)
(* A character is its code.  The fixed text of a JSON message is one       *)
(* character each: Open up to the quote before the data, Close from the    *)
(* quote after it, ROpen and RClose around the value of an answer,         *)
(* NoResponse and NoOutput what the client prints when it got nothing and  *)
(* for an empty value.  Raw lines hold no JSON.  Who holds JSScope, and    *)
(* what becomes of a descriptor, is in SocketServer.                       *)
(***************************************************************************)
EXTENDS Integers, Sequences, SequencesExt

CONSTANTS
    Sources,        \* scripts a client sends in a JSON message
    Raws,           \* lines of raw JavaScript
    Results,        \* what running a script may give
    Casts,          \* texts that scripts broadcast
    BufSize,        \* the most one recv gives handle_client
    RecvSize,       \* the most one recv gives the client
    MaxLines,       \* bound: lines the client sends
    MaxCasts        \* bound: broadcasts

VARIABLES
    sent,           \* the messages sent so far
    out,            \* characters on their way to the server
    line,           \* handle_client's line
    pc,             \* handle_client: at "recv", in the loop over "lines", or
                    \* about to "run" msg
    msg,            \* handle_client's msg
    ran,            \* the scripts it has run
    said,           \* results and broadcasts in the order of their sends
    back,           \* characters on their way to the client
    data,           \* what the client has received
    printed         \* what calvin.py prints, after <<>>

wire == <<sent, out, line, pc, msg, ran, said, back, data, printed>>

Open      == 256
Close     == 257
ROpen     == 258
RClose    == 259
NoResponse == 260
NoOutput  == 261
NL        == 10
Quote     == 34
Backslash == 92
Pad       == 61

Prefix(s, n) == SubSeq(s, 1, n)
After(s, n)  == SubSeq(s, n + 1, Len(s))
Position(s, c) == SelectInSeq(s, LAMBDA d : d = c)
-----------------------------------------------------------------------------
(* Base64 *)

\* kB64Table: the character of a digit.
Digit(d) ==
    CASE d < 26 -> 65 + d [] d \in 26..51 -> 71 + d [] d \in 52..61 -> d - 4
      [] d = 62 -> 43 [] d = 63 -> 47

\* Python's b64encode: four digits for three bytes, the last four padded.
Encode(s) ==
    LET byte(i)  == IF i <= Len(s) THEN s[i] ELSE 0
        group(g) == LET v == 65536 * byte(3*g - 2) + 256 * byte(3*g - 1) + byte(3*g) IN
                    <<Digit(v \div 262144), Digit(v \div 4096 % 64),
                      IF 3*g - 1 > Len(s) THEN Pad ELSE Digit(v \div 64 % 64),
                      IF 3*g > Len(s) THEN Pad ELSE Digit(v % 64)>>
    IN FlattenSeq([g \in 1..(Len(s) + 2) \div 3 |-> group(g)])

\* The table T of b64_decode.
T(c) ==
    CASE c \in 65..90 -> c - 65 [] c \in 97..122 -> c - 71 [] c \in 48..57 -> c + 4
      [] c = 43 -> 62 [] c = 47 -> 63 [] c = Pad -> 0 [] OTHER -> -1

\* b64_decode: the digits up to the first character that is none, eight bits
\* at a time; bits that do not fill a byte are dropped.
b64_decode(in) ==
    LET bad == SelectInSeq(in, LAMBDA c : T(c) = -1)
        digits == IF bad = 0 THEN in ELSE Prefix(in, bad - 1)
        byte(j) == LET q == (8 * (j - 1)) \div 6
                       r == (8 * (j - 1)) % 6
                   IN (64 * T(digits[q + 1]) + T(digits[q + 2])) \div 2^(4 - r) % 256
    IN [j \in 1..(6 * Len(digits)) \div 8 |-> byte(j)]
-----------------------------------------------------------------------------
(* JSON *)

\* json_get_string(msg, "data"), "" when there is no such string.
json_get_data(json) ==
    LET q1 == Position(json, Open)
        q2 == Position(json, Close)
    IN IF q1 = 0 \/ q2 = 0 THEN <<>> ELSE SubSeq(json, q1 + 1, q2 - 1)

Hex(n) == IF n < 10 THEN 48 + n ELSE 87 + n

\* Mutation: newlines are sent as they are.
EscapeButNL(c) ==
    CASE c \in {Quote, Backslash} -> <<Backslash, c>>
      [] OTHER -> <<c>>

\* One character of json_escape.
Escape(c) ==
    CASE c \in {Quote, Backslash} -> <<Backslash, c>>
      [] c = NL -> <<Backslash, 110>>
      [] c = 13 -> <<Backslash, 114>>
      [] c = 9  -> <<Backslash, 116>>
      [] OTHER -> IF c < 32
                    THEN <<Backslash, 117, 48, 48, Hex(c \div 16), Hex(c % 16)>>
                    ELSE <<c>>

json_escape(s) == <<Quote>> \o FlattenSeq([i \in DOMAIN s |-> Escape(s[i])]) \o <<Quote>>

Response(result) == <<ROpen>> \o json_escape(result) \o <<RClose, NL>>

\* The character an escape of two characters stands for in JSON.
Unescape(c) ==
    CASE c = 110 -> NL [] c = 114 -> 13 [] c = 116 -> 9 [] OTHER -> c

Unhex(c) == IF c < 58 THEN c - 48 ELSE c - 87

\* json.loads, of what is between the quotes.
Loads(s) ==
    LET from[i \in 1..Len(s) + 1] ==
          IF i > Len(s) THEN <<>>
          ELSE IF s[i] # Backslash THEN <<s[i]>> \o from[i + 1]
          ELSE IF s[i + 1] # 117 THEN <<Unescape(s[i + 1])>> \o from[i + 2]
          ELSE <<16 * Unhex(s[i + 4]) + Unhex(s[i + 5])>> \o from[i + 6]
    IN from[1]
-----------------------------------------------------------------------------
(* The client *)

\* A message as it is sent: calvin.py's payload, or a line of JavaScript.
Payload(m) ==
    (IF m.json THEN <<Open>> \o Encode(m.text) \o <<Close>> ELSE m.text) \o <<NL>>

Messages == [json : {TRUE}, text : Sources] \cup [json : {FALSE}, text : Raws]

Init ==
    /\ sent = <<>> /\ out = <<>> /\ line = <<>> /\ pc = "recv" /\ msg = <<>>
    /\ ran = <<>> /\ said = <<>> /\ back = <<>> /\ data = <<>> /\ printed = <<>>

Send(m) ==
    /\ Len(sent) < MaxLines /\ printed = <<>>
    /\ sent' = Append(sent, m) /\ out' = out \o Payload(m)
    /\ UNCHANGED <<line, pc, msg, ran, said, back, data, printed>>

\* calvin.py receives until there is a newline ...
Receive(n) ==
    /\ printed = <<>> /\ n <= Len(back) /\ ~Contains(data, NL)
    /\ data' = data \o Prefix(back, n) /\ back' = After(back, n)
    /\ UNCHANGED <<sent, out, line, pc, msg, ran, said, printed>>

\* An answer and nothing else.
IsAnswer(s) ==
    /\ Len(s) > 3 /\ s[1] = ROpen /\ s[Len(s) - 1] = RClose
    /\ Position(s, NL) = Len(s)

\* ... and prints the value of the answer, or what it got, stripped, when that
\* is no JSON.
Shown(value) == IF value = <<>> THEN <<NoOutput>> ELSE value
Strip(s)     == IF Last(s) = NL THEN Front(s) ELSE s
Value(s)     == IF IsAnswer(s) THEN Shown(Loads(SubSeq(s, 3, Len(s) - 3))) ELSE Strip(s)

\* After ten seconds without a byte it prints what it has, if anything.
PrintValue ==
    /\ printed = <<>>
    /\ Contains(data, NL) \/ sent # <<>>
    /\ printed' = <<IF data = <<>> THEN <<NoResponse>> ELSE Value(data)>>
    /\ UNCHANGED <<sent, out, line, pc, msg, ran, said, back, data>>
-----------------------------------------------------------------------------
(* handle_client *)

\* line += buf: the buffer is a C string.
CString(buf) == IF Contains(buf, 0) THEN Prefix(buf, Position(buf, 0) - 1) ELSE buf

\* Mutation: a line ends with the buffer it came in.
FreshLine(buf) == CString(buf)

Joined(buf) == line \o CString(buf)

Recv(n) ==
    /\ pc = "recv" /\ n <= Len(out)
    /\ line' = Joined(Prefix(out, n)) /\ out' = After(out, n)
    /\ pc' = "lines"
    /\ UNCHANGED <<sent, msg, ran, said, back, data, printed>>

\* One turn of the loop over the lines; it ends when none is left.
Turn ==
    LET pos == Position(line, NL) IN
    /\ pc = "lines"
    /\ IF pos = 0
         THEN pc' = "recv" /\ UNCHANGED <<line, msg>>
         ELSE /\ line' = After(line, pos) /\ msg' = Prefix(line, pos - 1)
              /\ pc' = IF pos = 1 THEN "lines" ELSE "run"
    /\ UNCHANGED <<sent, out, ran, said, back, data, printed>>

\* The script of a message: its decoded data, or the message itself.
Script ==
    LET script == IF Contains(msg, Open) THEN b64_decode(json_get_data(msg)) ELSE <<>>
    IN IF script = <<>> THEN msg ELSE script

\* QuickJS takes a NUL inside the source for a syntax error.
LoadScript(script) == IF Contains(script, 0) THEN {<<69>>} ELSE Results

\* The script is run and its result sent.
Run ==
    /\ pc = "run" /\ pc' = "lines"
    /\ ran' = Append(ran, Script)
    /\ \E result \in LoadScript(Script) :
         said' = Append(said, result) /\ back' = back \o Response(result)
    /\ UNCHANGED <<sent, out, line, msg, data, printed>>

\* broadcast_to_clients, from some script: a line of its own.
Broadcast(text) ==
    /\ Len(said) - Len(ran) < MaxCasts
    /\ said' = Append(said, text) /\ back' = back \o text \o <<NL>>
    /\ UNCHANGED <<sent, out, line, pc, msg, ran, data, printed>>

Next ==
    \/ \E m \in Messages : Send(m)
    \/ \E n \in 1..RecvSize : Receive(n)
    \/ PrintValue
    \/ \E n \in 1..BufSize : Recv(n)
    \/ Turn \/ Run
    \/ \E text \in Casts : Broadcast(text)

Spec == Init /\ [][Next]_wire
-----------------------------------------------------------------------------
(* Properties *)

\* The script the code makes of a message: a script that does not fill its
\* last three bytes comes with NULs after it, an empty one is the message.
Padded(s) == [i \in 1..3 * ((Len(s) + 2) \div 3) |-> IF i <= Len(s) THEN s[i] ELSE 0]
Meant(m)  == IF m.json /\ m.text # <<>> THEN Padded(m.text) ELSE Front(Payload(m))

Runnable(messages) == SelectSeq(messages, LAMBDA m : m.json \/ m.text # <<>>)

\* However recv cuts the stream, lines are run whole, in order, once, and as
\* what they mean; what is left of the messages is exactly what the handler
\* holds and has yet to receive, and nothing is left when it waits for more.
LinesWhole ==
    LET all  == Runnable(sent)
        held == (IF pc = "run" THEN Append(msg, NL) ELSE <<>>) \o line
    IN /\ Len(ran) <= Len(all)
       /\ \A i \in DOMAIN ran : ran[i] = Meant(all[i])
       /\ \E k \in 0..Len(sent) :
            /\ Len(Runnable(Prefix(sent, k))) = Len(ran)
            /\ held \o out = FlattenSeq([i \in 1..Len(sent) - k |-> Payload(sent[k + i])])
       /\ pc = "recv" /\ out = <<>> => Len(ran) = Len(all)

\* calvin.py, which sends one line, prints the result of its script, whatever
\* characters are in it and however recv cuts it, unless it waits too long for
\* its end; only a broadcast can come in between.
PrintsResult ==
    printed # <<>> /\ Contains(data, NL) /\ Len(said) = 1 => printed = <<Shown(said[1])>>

\* The script that is run is the one that was encoded.
RunsSource ==
    \A i \in DOMAIN ran :
      Runnable(sent)[i].json => ran[i] = Runnable(sent)[i].text
=============================================================================
